---------------------------- MODULE Spec2Model ----------------------------
(***************************************************************************)
(* A model of js/scripts/generate-wrappers.js: the resolution of class     *)
(* configurations, the resolution of references between classes, the       *)
(* per-class wrapper generators of the JavaScript and the Python pipeline   *)
(* and the aggregation files written once the wrappers are out.            *)
(*                                                                         *)
(* Strings are sequences of lexemes (a lexeme is one or more characters    *)
(* that the program never splits: "Ring", ".", "/", "js", "autogen"), so    *)
(* that suffix tests, replacements and path arithmetic are computed.       *)
(***************************************************************************)
EXTENDS Naturals, Integers, Sequences, FiniteSets, TLC

---------------------------------------------------------------------------
(* A value computed once and then used under a name.                       *)

\* const v = e; F(v): e is evaluated once, whatever the number of uses of v
Bind(e, F(_)) == CHOOSE r \in {F(v) : v \in {e}} : TRUE

---------------------------------------------------------------------------
(* Strings and the functions of node's path module that the script uses.   *)

DOT == "."
SEP == "/"

\* s.replace(/\./g, '_')
ReplaceDots(s) == [i \in 1..Len(s) |-> IF s[i] = DOT THEN "_" ELSE s[i]]

EndsWith(s, suffix) ==
    /\ Len(suffix) <= Len(s)
    /\ SubSeq(s, Len(s) - Len(suffix) + 1, Len(s)) = suffix

StartsWith(s, prefix) ==
    /\ Len(prefix) <= Len(s)
    /\ SubSeq(s, 1, Len(prefix)) = prefix

DropLast(s, n) == SubSeq(s, 1, Len(s) - n)

\* the index of the last path separator of s, 0 when there is none
LastSep(s) ==
    IF \E i \in 1..Len(s) : s[i] = SEP
    THEN CHOOSE i \in 1..Len(s) : s[i] = SEP /\ \A j \in (i+1)..Len(s) : s[j] # SEP
    ELSE 0

\* s.split(pathSep): the segments between the separators
RECURSIVE Split(_)
Split(s) ==
    IF LastSep(s) = 0 THEN <<s>>
    ELSE Append(Split(SubSeq(s, 1, LastSep(s) - 1)), SubSeq(s, LastSep(s) + 1, Len(s)))

\* segments.join(sep)
RECURSIVE JoinWith(_, _)
JoinWith(segs, sep) ==
    IF Len(segs) = 0 THEN <<>>
    ELSE IF Len(segs) = 1 THEN segs[1]
    ELSE segs[1] \o <<sep>> \o JoinWith(Tail(segs), sep)

JoinSegs(segs) == JoinWith(segs, SEP)

CUR == <<DOT>>
UP  == <<DOT, DOT>>

\* path.normalize on a list of segments: "" and "." go, ".." takes the
\* segment before it (and stays when there is none to take)
RECURSIVE NormSegs(_)
NormSegs(segs) ==
    IF Len(segs) = 0 THEN <<>>
    ELSE LET last == segs[Len(segs)]
         IN  Bind(NormSegs(DropLast(segs, 1)), LAMBDA front :
                 IF last = <<>> \/ last = CUR THEN front
                 ELSE IF last = UP /\ Len(front) > 0 /\ front[Len(front)] # UP
                      THEN DropLast(front, 1)
                 ELSE Append(front, last))

\* path.basename(p)
Basename(p) == Bind(Split(p), LAMBDA segs : segs[Len(segs)])

\* path.basename(p, ext)
BasenameExt(p, ext) ==
    Bind(Basename(p), LAMBDA base :
        IF EndsWith(base, ext) /\ base # ext THEN DropLast(base, Len(ext)) ELSE base)

\* path.dirname(p) of a relative path
Dirname(p) ==
    IF LastSep(p) = 0 THEN CUR ELSE SubSeq(p, 1, LastSep(p) - 1)

\* path.join(a, b)
PathJoin(a, b) ==
    Bind(NormSegs(Split(a) \o Split(b)), LAMBDA n :
        IF Len(n) = 0 THEN CUR ELSE JoinSegs(n))

(* An absolute path is kept as the normalised list of its segments below   *)
(* the source directory of its tree (jsSrcDir, pySrcDir); a leading ".."   *)
(* segment is a place above that directory.                                *)

\* path.resolve(srcDir, p)
Resolve(p) == NormSegs(Split(p))

\* path.resolve(dirAbs, name)
ResolveIn(dirAbs, p) == NormSegs(dirAbs \o Split(p))

\* the absolute path p with ext appended to its last segment (absPath += ext)
AddExt(abs, ext) == [abs EXCEPT ![Len(abs)] = @ \o ext]

\* path.dirname of an absolute path
AbsDirname(abs) == DropLast(abs, 1)

RECURSIVE CommonPrefixLen(_, _)
CommonPrefixLen(a, b) ==
    IF Len(a) = 0 \/ Len(b) = 0 \/ a[1] # b[1] THEN 0
    ELSE 1 + CommonPrefixLen(Tail(a), Tail(b))

\* path.relative(from, to): "" when they are the same place
Relative(from, to) ==
    Bind(CommonPrefixLen(from, to), LAMBDA k :
        JoinSegs([i \in 1..(Len(from) - k) |-> UP] \o SubSeq(to, k + 1, Len(to))))

---------------------------------------------------------------------------
(* Insertion-ordered maps (JavaScript objects): sequences of [k, v].       *)

Has(m, k) == \E i \in 1..Len(m) : m[i].k = k
IndexOf(m, k) == CHOOSE i \in 1..Len(m) : m[i].k = k
Get(m, k) == m[IndexOf(m, k)].v
Keys(m) == [i \in 1..Len(m) |-> m[i].k]
KeySet(m) == {m[i].k : i \in 1..Len(m)}

\* target[k] = v
Put(m, k, v) ==
    IF Has(m, k) THEN [m EXCEPT ![IndexOf(m, k)] = [k |-> k, v |-> v]]
    ELSE Append(m, [k |-> k, v |-> v])

\* Object.assign(target, source)
RECURSIVE ObjectAssign(_, _)
ObjectAssign(target, source) ==
    IF Len(source) = 0 THEN target
    ELSE ObjectAssign(Put(target, source[1].k, source[1].v), Tail(source))

\* a || []  for an optional field of a record
FieldOr(rec, field, dflt) == IF field \in DOMAIN rec THEN rec[field] ELSE dflt

---------------------------------------------------------------------------
(* The Config Store and the helper functions.                              *)

VARIABLES
    classConfigs,   \* require('./three-class-config'): ordered map, key -> record
    rArg,           \* getClassConfig: argument of the call being entered (<<>>: none)
    rStack,         \* getClassConfig: the class of each active frame, outermost first
    rRet,           \* getClassConfig: value returned by the last frame that finished
    rOut,           \* outcome of the helper call: [state, fn, arg, value, err, depth]
    rSeen           \* getClassConfig: deepest the stack of this call has been

resolveVars == <<rArg, rStack, rRet, rOut, rSeen>>

\* frames the engine's call stack holds before it throws a RangeError
StackLimit == 6

DEFAULTS == <<"_", "defaults">>

Ok(v) == [ok |-> TRUE, value |-> v, err |-> "none"]
Err(e) == [ok |-> FALSE, value |-> <<>>, err |-> e]

\* className in classConfigs
InStore(name) == Has(classConfigs, name)

\* curClass.superClass && curClass.superClass !== classConfigs._defaults.superClass
HasSuperToResolve(curClass) ==
    /\ "superClass" \in DOMAIN curClass
    /\ curClass.superClass # <<>>
    /\ curClass.superClass # Get(classConfigs, DEFAULTS).superClass

\* a merge that assigns the superclass's properties over the class's own
MergeSuperOverOwn(superAll, ownProps) == ObjectAssign(ObjectAssign(<<>>, ownProps), superAll)

\* allProperties of a class: the superclass's, then its own assigned over them
MergeAllProperties(superAll, ownProps) == ObjectAssign(ObjectAssign(<<>>, superAll), ownProps)

\* the body of getClassConfig once the superclass (if any) has been resolved:
\* superCfg is <<>> or <<the resolved superclass>>
FrameResult(curClass, superCfg) ==
    LET superAll   == IF Len(superCfg) = 1 THEN superCfg[1].allProperties ELSE <<>>
        superThree == IF Len(superCfg) = 1
                      THEN FieldOr(superCfg[1], "propsDefinedByThree", <<>>) ELSE <<>>
        own == [allProperties |->
                    MergeAllProperties(superAll, FieldOr(curClass, "properties", <<>>)),
                propsDefinedByThree |->
                    FieldOr(curClass, "propsDefinedByThree", <<>>) \o superThree]
    IN  \* own fields first, then the class's, then _.defaults(result, _defaults)
        (own @@ curClass) @@ Get(classConfigs, DEFAULTS)

\* getClassConfig(className), with depth frames already on the stack
RECURSIVE GetClassConfigAt(_, _)
GetClassConfigAt(className, depth) ==
    LET name == ReplaceDots(className)
    IN  IF depth >= StackLimit THEN Err("RangeError")
        ELSE IF ~InStore(name) THEN Err("invalid class name")
        ELSE LET curClass == Get(classConfigs, name)
             IN  IF HasSuperToResolve(curClass)
                 THEN Bind(GetClassConfigAt(curClass.superClass, depth + 1), LAMBDA sup :
                          IF sup.ok THEN Ok(FrameResult(curClass, <<sup.value>>)) ELSE sup)
                 ELSE Ok(FrameResult(curClass, <<>>))

getClassConfig(className) == GetClassConfigAt(className, 0)

\* the keys that share the class's relativePath, in key order
RECURSIVE SharedKeys(_, _, _)
SharedKeys(keys, relativePath, className) ==
    IF Len(keys) = 0 THEN <<>>
    ELSE LET key  == keys[1]
             rest == SharedKeys(Tail(keys), relativePath, className)
         IN  IF key[1] = "_" THEN rest
             ELSE IF /\ FieldOr(Get(classConfigs, key), "relativePath", <<>>) = relativePath
                     /\ key # className
                  THEN <<key>> \o rest
             ELSE rest

\* a getExtraDefines that does not look the name up before it collects
getExtraDefinesUnchecked(className) ==
    Ok(SharedKeys(Keys(classConfigs),
                  IF InStore(ReplaceDots(className))
                  THEN FieldOr(Get(classConfigs, ReplaceDots(className)), "relativePath", <<>>)
                  ELSE <<>>,
                  ReplaceDots(className)))

\* getExtraDefines(className)
getExtraDefines(className) ==
    LET name == ReplaceDots(className)
    IN  IF ~InStore(name) THEN Err("invalid class name")
        ELSE Ok(SharedKeys(Keys(classConfigs),
                           FieldOr(Get(classConfigs, name), "relativePath", <<>>), name))

---------------------------------------------------------------------------
(* getClassConfig and getExtraDefines, one call frame at a time.           *)

EmptyRec == [x \in {} |-> x]

Idle == [state |-> "idle", fn |-> "none", arg |-> <<>>, value |-> <<>>, err |-> "none"]

\* a caller invokes getClassConfig(name)
GccCall(name) ==
    /\ rOut.state = "idle"
    /\ rOut' = [rOut EXCEPT !.state = "running", !.fn = "getClassConfig", !.arg = name]
    /\ rArg' = <<name>>
    /\ rStack' = <<>>
    /\ rRet' = <<>>
    /\ rSeen' = 0
    /\ UNCHANGED classConfigs

\* lines 101-119: a frame is entered; it throws, calls its superclass or is
\* ready to finish
GccEnter ==
    /\ rOut.state = "running"
    /\ Len(rArg) = 1
    /\ LET name == ReplaceDots(rArg[1])
       IN  IF Len(rStack) >= StackLimit
           THEN /\ rOut' = [rOut EXCEPT !.state = "thrown", !.err = "RangeError"]
                /\ rArg' = <<>> /\ rStack' = <<>> /\ rRet' = <<>>
                /\ UNCHANGED rSeen
           ELSE IF ~InStore(name)
           THEN /\ rOut' = [rOut EXCEPT !.state = "thrown", !.err = "invalid class name"]
                /\ rArg' = <<>> /\ rStack' = <<>> /\ rRet' = <<>>
                /\ UNCHANGED rSeen
           ELSE /\ rStack' = Append(rStack, name)
                /\ rSeen' = IF Len(rStack) + 1 > rSeen THEN Len(rStack) + 1 ELSE rSeen
                /\ rArg' = IF HasSuperToResolve(Get(classConfigs, name))
                           THEN <<Get(classConfigs, name).superClass>> ELSE <<>>
                /\ rRet' = <<>>
                /\ UNCHANGED rOut
    /\ UNCHANGED classConfigs

\* lines 120-134: the innermost frame finishes and returns to its caller
GccReturn ==
    /\ rOut.state = "running"
    /\ Len(rArg) = 0
    /\ Len(rStack) > 0
    /\ \E curClass \in {Get(classConfigs, rStack[Len(rStack)])} :
       \E result \in {FrameResult(curClass,
                                  IF HasSuperToResolve(curClass) THEN rRet ELSE <<>>)} :
           /\ rStack' = DropLast(rStack, 1)
           /\ rRet' = <<result>>
           /\ rOut' = IF Len(rStack) = 1
                      THEN [rOut EXCEPT !.state = "returned", !.value = <<result>>]
                      ELSE rOut
    /\ UNCHANGED <<classConfigs, rArg, rSeen>>

\* a caller invokes getExtraDefines(name)
GedCall(name) ==
    /\ rOut.state = "idle"
    /\ \E r \in {getExtraDefines(name)} :
           rOut' = [state |-> IF r.ok THEN "returned" ELSE "thrown",
                    fn |-> "getExtraDefines", arg |-> name,
                    value |-> IF r.ok THEN <<r.value>> ELSE <<>>, err |-> r.err]
    /\ UNCHANGED <<classConfigs, rArg, rStack, rRet, rSeen>>

---------------------------------------------------------------------------
(* Config Stores the helper functions are run on.                          *)

BASE    == <<"BaseGeometry">>
SHAPE   == <<"Shape">>
RING    == <<"Ring">>
OUTLINE == <<"Ring", "_", "Outline">>
GHOST   == <<"Ghost">>

\* './_base/Three'
BASE_THREE == <<DOT, SEP, "_base", SEP, "Three">>

\* './<dir>/<name>'
RelPath(dir, name) == <<DOT, SEP, dir, SEP>> \o name

DefaultsRec ==
    [superClass |-> BASE_THREE, properties |-> <<>>,
     constructorArgs |-> <<>>, propsDefinedByThree |-> <<>>]

\* prop.typeName: a string, an array of strings, or neither
TnStr(str) == [kind |-> "string", str |-> str, arr |-> <<>>]
TnArr(arr) == [kind |-> "array", str |-> <<>>, arr |-> arr]
TnNone == [kind |-> "none", str |-> <<>>, arr |-> <<>>]

\* a property descriptor; origin tells the declaring class's descriptor from
\* another class's descriptor of the same name
Prop(type, typeName, origin) == [type |-> type, typeName |-> typeName, origin |-> origin]
PlainProps(names, origin) ==
    [i \in 1..Len(names) |-> [k |-> <<names[i]>>, v |-> Prop("Plain", TnNone, origin)]]

\* a class record; an option is <<>> (field absent) or <<value>>
ClassRec(relativePath, superOpt, props) ==
    [relativePath |-> relativePath, properties |-> props]
        @@ (IF Len(superOpt) = 1 THEN [superClass |-> superOpt[1]] ELSE EmptyRec)

PropOptions == {<<>>, <<"p">>, <<"q">>, <<"q", "p">>}

\* a class record with its constructorArgs field set, when the option holds one
WithArgs(rec, argsOpt) ==
    IF Len(argsOpt) = 1 THEN [constructorArgs |-> argsOpt[1]] @@ rec ELSE rec

ResolveStores ==
    { << [k |-> DEFAULTS, v |-> DefaultsRec],
         [k |-> BASE,  v |-> WithArgs(ClassRec(RelPath("core", BASE), sb,
                                               PlainProps(<<"p", "q">>, BASE)), ab)],
         [k |-> SHAPE, v |-> ClassRec(RelPath("geo", SHAPE), ss, PlainProps(ps, SHAPE))],
         [k |-> RING,  v |-> WithArgs(ClassRec(RelPath("geo", RING), sr,
                                               PlainProps(pr, RING)), ar)],
         [k |-> OUTLINE, v |-> ClassRec(RelPath("geo", unit), <<SHAPE>>, <<>>)] >> :
        sb \in {<<>>, <<BASE_THREE>>, <<RING>>},
        ss \in {<<BASE>>, <<SHAPE>>, <<GHOST>>, <<BASE_THREE>>},
        sr \in {<<SHAPE>>, <<BASE>>, <<>>},
        ps \in {<<>>, <<"p">>, <<"q">>},
        pr \in PropOptions,
        unit \in {RING, OUTLINE},
        ab \in {<<>>, << <<<<"p">>>> >>},
        ar \in {<<>>, << <<<<"q">>>> >>} }

QueryNames == {BASE, SHAPE, RING, OUTLINE, <<"Ring", DOT, "Outline">>, GHOST}

---------------------------------------------------------------------------
(* Storage: each tree is a function from the absolute paths of its files   *)
(* to their content.                                                       *)

VARIABLES
    jsFiles,        \* the files below jsSrcDir
    pyFiles         \* the files below pySrcDir

\* fse.existsSync(path)
Exists(files, abs) == abs \in DOMAIN files

EXT_JS      == <<DOT, "js">>
EXT_PY      == <<DOT, "py">>
AUTOGEN_EXT == <<"autogen">>
JS_AUTOGEN_EXT == <<DOT>> \o AUTOGEN_EXT \o EXT_JS

\* a value that is not a string (undefined, null, an object)
NonString == <<"(not a string)">>
IsString(v) == v # NonString

\* relativePathToPythonImportPath: the forEach over the tokens, as a fold
\* over [result, sawFolderToken]
RECURSIVE ImportPathFold(_, _)
ImportPathFold(tokens, acc) ==
    IF Len(tokens) = 0 THEN acc
    ELSE LET token == tokens[1]
             next  == IF token = CUR THEN acc
                      ELSE IF token = UP
                           THEN [acc EXCEPT !.result = @ \o <<DOT>>]
                      ELSE [result |-> acc.result \o <<DOT>> \o token, saw |-> TRUE]
         IN  ImportPathFold(Tail(tokens), next)

\* an import path that is the tokens of the path joined by dots
DottedTokens(relativePath) == <<DOT>> \o JoinWith(Split(relativePath), DOT)

relativePathToPythonImportPath(relativePath) ==
    Bind(Split(relativePath), LAMBDA tokens :
        LET firstToken == tokens[1]
            start      == IF firstToken = CUR THEN [t |-> Tail(tokens), r |-> <<>>]
                          ELSE IF firstToken = UP THEN [t |-> Tail(tokens), r |-> <<DOT>>]
                          ELSE [t |-> tokens, r |-> <<>>]
        IN  IF Len(tokens) <= 0 THEN <<DOT>>
            ELSE Bind(ImportPathFold(start.t, [result |-> start.r, saw |-> FALSE]),
                      LAMBDA folded :
                          IF ~folded.saw THEN folded.result \o <<DOT>> ELSE folded.result))

\* a caller invokes relativePathToPythonImportPath(relativePath)
RpCall(relativePath) ==
    /\ rOut.state = "idle"
    /\ rOut' = [state |-> "returned", fn |-> "relativePathToPythonImportPath",
                arg |-> relativePath,
                value |-> <<relativePathToPythonImportPath(relativePath)>>, err |-> "none"]
    /\ UNCHANGED <<classConfigs, rArg, rStack, rRet, rSeen>>

---------------------------------------------------------------------------
(* Reference resolution: getRequireInfoFromClassDescriptor.                *)

\* lines 342-355 and 709-722: the class name and the relative path a
\* descriptor stands for
DescriptorTarget(classDescriptor) ==
    IF ~IsString(classDescriptor) THEN Err("invalid classDescriptor")
    ELSE IF InStore(classDescriptor)
    THEN Bind(getClassConfig(classDescriptor), LAMBDA config :
             IF config.ok
             THEN Ok([className |-> classDescriptor,
                      relativePath |-> config.value.relativePath])
             ELSE config)
    ELSE Ok([className |-> BasenameExt(classDescriptor, EXT_JS),
             relativePath |-> classDescriptor])

\* lines 359-365: the file a reference points at
JsResolvedFile(relativePath) ==
    Bind(Resolve(relativePath), LAMBDA absPath :
        IF Exists(jsFiles, AddExt(absPath, EXT_JS))
        THEN AddExt(absPath, EXT_JS)
        ELSE AddExt(absPath, JS_AUTOGEN_EXT))

\* lines 366-369
JsRequirePath(destDir, absPath) ==
    Bind(Relative(destDir, absPath), LAMBDA rel :
        IF Len(rel) = 0 \/ rel[1] # DOT THEN <<DOT, SEP>> \o rel ELSE rel)

\* JavascriptWrapper.getRequireInfoFromClassDescriptor
JsRequireInfo(destDir, classDescriptor) ==
    Bind(DescriptorTarget(classDescriptor), LAMBDA target :
        IF ~target.ok THEN target
        ELSE Ok([className    |-> target.value.className,
                 relativePath |-> target.value.relativePath,
                 modelName    |-> target.value.className \o <<"Model">>,
                 absolutePath |-> Resolve(target.value.relativePath),
                 requirePath  |-> JsRequirePath(destDir,
                                      JsResolvedFile(target.value.relativePath))]))

\* lines 725-729: the module a reference points at (no .py extension)
PyResolvedModule(relativePath) ==
    Bind(Resolve(relativePath), LAMBDA absPath :
        IF ~Exists(pyFiles, AddExt(absPath, EXT_PY))
        THEN AddExt(absPath, <<"_">> \o AUTOGEN_EXT)
        ELSE absPath)

\* PythonWrapper.getRequireInfoFromClassDescriptor
PyRequireInfo(destDir, classDescriptor) ==
    Bind(DescriptorTarget(classDescriptor), LAMBDA target :
        IF ~target.ok THEN target
        ELSE Bind(PyResolvedModule(target.value.relativePath), LAMBDA absPath :
             Bind(Relative(destDir, absPath), LAMBDA requirePath :
                 Ok([className      |-> target.value.className,
                     relativePath   |-> target.value.relativePath,
                     absolutePath   |-> absPath,
                     requirePath    |-> requirePath,
                     pyRelativePath |-> relativePathToPythonImportPath(requirePath)]))))

RequireInfo(lang, destDir, classDescriptor) ==
    IF lang = "js" THEN JsRequireInfo(destDir, classDescriptor)
    ELSE PyRequireInfo(destDir, classDescriptor)

---------------------------------------------------------------------------
(* The wrapper classes.                                                    *)

VARIABLES
    run             \* which run of the script this is; new Date() tells runs apart

ThreeTypes == {"ThreeType", "InitializedThreeType", "ThreeTypeArray", "ThreeTypeDict"}
THIS == <<"this">>
PARAMETERS == <<"parameters">>
THREE == <<"Three">>
THREE_WIDGET == <<"ThreeWidget">>

\* lines 396-408 and 762-776: the names a property asks to resolve, each
\* with whether it came from a string typeName
PropTypeNames(prop) ==
    IF prop.type \in ThreeTypes /\ prop.typeName # TnStr(THIS)
    THEN IF prop.typeName.kind = "string"
         THEN << [name |-> IF prop.typeName.str = <<>> THEN BASE_THREE
                           ELSE prop.typeName.str,
                  fromString |-> TRUE] >>
         ELSE IF prop.typeName.kind = "array"
         THEN [i \in 1..Len(prop.typeName.arr) |->
                  [name |-> prop.typeName.arr[i], fromString |-> FALSE]]
         ELSE <<>>
    ELSE <<>>

RECURSIVE PropsTypeNames(_)
PropsTypeNames(props) ==
    IF Len(props) = 0 THEN <<>>
    ELSE PropTypeNames(props[1].v) \o PropsTypeNames(Tail(props))

\* a processDependencies that scans allProperties, the inherited included
DependencyNamesOfAll(config) ==
    [i \in 1..Len(FieldOr(config, "dependencies", <<>>)) |->
        [name |-> config.dependencies[i], fromString |-> FALSE]]
    \o PropsTypeNames(config.allProperties)

\* the names processDependencies resolves, in the order it resolves them:
\* the explicit dependencies, then the own properties' type names
DependencyNames(config) ==
    [i \in 1..Len(FieldOr(config, "dependencies", <<>>)) |->
        [name |-> config.dependencies[i], fromString |-> FALSE]]
    \o PropsTypeNames(config.properties)

\* lines 742-744 and 768-770
PyRenameThree(info) ==
    IF info.className = THREE THEN [info EXCEPT !.className = THREE_WIDGET] ELSE info

\* result[name] = this.getRequireInfoFromClassDescriptor(name), for each name
RECURSIVE ResolveNames(_, _, _, _)
ResolveNames(lang, destDir, names, acc) ==
    IF Len(names) = 0 THEN Ok(acc)
    ELSE Bind(RequireInfo(lang, destDir, names[1].name), LAMBDA info :
             IF ~info.ok THEN info
             ELSE Bind(Put(acc, names[1].name,
                           IF lang = "py" /\ names[1].fromString
                           THEN PyRenameThree(info.value) ELSE info.value),
                       LAMBDA result : ResolveNames(lang, destDir, Tail(names), result)))

\* processDependencies
processDependencies(lang, destDir, config) ==
    ResolveNames(lang, destDir, DependencyNames(config), <<>>)

\* processSuperClass
processSuperClass(lang, destDir, config) ==
    Bind(RequireInfo(lang, destDir, config.superClass), LAMBDA info :
        IF info.ok /\ lang = "py" THEN Ok(PyRenameThree(info.value)) ELSE info)

\* processConstructorArgs: one entry per constructor argument, or the error
\* thrown for a name that allProperties does not hold
RECURSIVE ConstructorArgs(_, _, _)
ConstructorArgs(lang, config, names) ==
    IF Len(names) = 0 THEN Ok(<<>>)
    ELSE LET propName == names[1]
             arg      == IF propName = PARAMETERS
                         THEN [name |-> propName,
                               props |-> IF lang = "js" THEN config.properties ELSE <<>>]
                         ELSE [name |-> propName,
                               props |-> <<[k |-> propName,
                                            v |-> Get(config.allProperties, propName)]>>]
         IN  IF propName # PARAMETERS /\ ~Has(config.allProperties, propName)
             THEN Err(IF lang = "js" THEN "invalid propName" ELSE "TypeError")
             ELSE Bind(ConstructorArgs(lang, config, Tail(names)), LAMBDA rest :
                      IF ~rest.ok THEN rest ELSE Ok(<<arg>> \o rest.value))

\* the class a wrapper is for: the name given, or the module's base name
WrapperClassName(modulePath, classNameOpt) ==
    IF Len(classNameOpt) = 1 THEN classNameOpt[1]
    ELSE ReplaceDots(BasenameExt(modulePath, EXT_JS))

\* a destination that is the module's own path: <dir>/<Name>.js
JsPlainDestPath(modulePath, classNameOpt) ==
    Append(AbsDirname(Resolve(modulePath)),
           (IF Len(classNameOpt) = 1 THEN classNameOpt[1]
            ELSE BasenameExt(Basename(modulePath), EXT_JS)) \o EXT_JS)

\* lines 277-289: jsAutoDestPath
JsAutoDestPath(modulePath, classNameOpt) ==
    LET jsDestPath == Resolve(modulePath)
    IN  IF Len(classNameOpt) = 1
        THEN Append(AbsDirname(jsDestPath), classNameOpt[1] \o JS_AUTOGEN_EXT)
        ELSE Append(AbsDirname(jsDestPath),
                    BasenameExt(Basename(modulePath), EXT_JS) \o JS_AUTOGEN_EXT)

\* lines 303-304: customSrcPath
JsCustomSrcPath(modulePath) ==
    Append(AbsDirname(Resolve(modulePath)), BasenameExt(Basename(modulePath), EXT_JS) \o EXT_JS)

\* lines 659-660: pyDestPath and pyAutoDestPath
PyDestPath(modulePath, className) ==
    Append(AbsDirname(Resolve(modulePath)), className \o EXT_PY)
PyAutoDestPath(modulePath, className) ==
    Append(AbsDirname(Resolve(modulePath)), className \o <<"_">> \o AUTOGEN_EXT \o EXT_PY)

\* a constructor that launches the extra definitions whether or not it was
\* given a class name
LaunchedExtrasOfAny(modulePath, classNameOpt) ==
    Bind(getExtraDefines(WrapperClassName(modulePath, classNameOpt)), LAMBDA extra :
        IF extra.ok THEN extra.value ELSE <<>>)

\* the extra definitions a primary wrapper launches before it resolves its
\* own configuration (none when it was given a class name, or when
\* getExtraDefines throws)
LaunchedExtras(modulePath, classNameOpt) ==
    IF Len(classNameOpt) = 1 THEN <<>>
    ELSE Bind(getExtraDefines(WrapperClassName(modulePath, classNameOpt)), LAMBDA extra :
             IF extra.ok THEN extra.value ELSE <<>>)

\* what both constructors compute from the configuration: Ok of the parts,
\* or the first error thrown
WrapperParts(lang, modulePath, classNameOpt) ==
    Bind(WrapperClassName(modulePath, classNameOpt), LAMBDA className :
    Bind(AbsDirname(Resolve(modulePath)), LAMBDA destDir :
    Bind(IF Len(classNameOpt) = 1 THEN Ok(<<>>) ELSE getExtraDefines(className), LAMBDA extra :
    IF ~extra.ok THEN extra
    ELSE Bind(getClassConfig(className), LAMBDA config :
    IF ~config.ok THEN config
    ELSE Bind(processSuperClass(lang, destDir, config.value), LAMBDA superClass :
    IF ~superClass.ok THEN superClass
    ELSE Bind(processDependencies(lang, destDir, config.value), LAMBDA deps :
    IF ~deps.ok THEN deps
    ELSE Bind(ConstructorArgs(lang, config.value, config.value.constructorArgs), LAMBDA args :
    IF ~args.ok THEN args
    ELSE Ok([className |-> className, config |-> config.value,
             superClass |-> superClass.value,
             dependencies |-> deps.value,
             constructorArgs |-> args.value]))))))))

\* processOverrideClass: <<>> or <<the override pointer>>
processOverrideClass(hasOverride, className) ==
    IF ~hasOverride THEN <<>>
    ELSE << [relativePath |-> <<DOT, SEP>> \o className \o EXT_JS,
             modelName |-> <<"Override", DOT, "undefined">>] >>

\* new JavascriptWrapper(modulePath, className): Ok of the wrapper, or the
\* error the constructor throws
JavascriptWrapper(modulePath, classNameOpt) ==
    Bind(WrapperParts("js", modulePath, classNameOpt), LAMBDA parts :
    Bind(Exists(jsFiles, JsCustomSrcPath(modulePath)), LAMBDA hasOverride :
        IF ~parts.ok THEN parts
        ELSE Ok([className |-> parts.value.className,
                 outputFilename |-> JsAutoDestPath(modulePath, classNameOpt),
                 hasOverride |-> hasOverride,
                 dependencies |-> parts.value.dependencies,
                 superClass |-> parts.value.superClass,
                 output |->
                    [now |-> run,
                     className |-> parts.value.className,
                     modelName |-> parts.value.className \o <<"Model">>,
                     superClass |-> parts.value.superClass,
                     constructorArgs |-> parts.value.constructorArgs,
                     properties |-> parts.value.config.properties,
                     dependencies |-> parts.value.dependencies,
                     props_created_by_three |-> parts.value.config.propsDefinedByThree,
                     override_class |->
                        processOverrideClass(hasOverride, parts.value.className)]])))

\* 'dir/Name.js', a module path as the enumerators yield it
Unit(dir, name) == <<dir, SEP>> \o name \o EXT_JS

\* CUSTOM_CLASSES (the entries of the list that the model runs)
CUSTOM_CLASSES == << Unit("core", <<"BaseGeometry">>) >>

InList(list, x) == \E i \in 1..Len(list) : list[i] = x

\* s with the first occurrence of pattern replaced (String.replace of a string)
RECURSIVE ReplaceFirst(_, _, _)
ReplaceFirst(s, pattern, replacement) ==
    IF Len(s) < Len(pattern) THEN s
    ELSE IF StartsWith(s, pattern) THEN replacement \o SubSeq(s, Len(pattern) + 1, Len(s))
    ELSE <<s[1]>> \o ReplaceFirst(Tail(s), pattern, replacement)

\* lines 833-841: the pairs of processDocsUrl's replacements
DocsUrlReplacements ==
    << <<"Renderers", "WebGL", "Plugins">>, <<"Renderers", "WebGL">>,
       <<"Renderers", "Shaders">>, <<"Extras", "Animation">>, <<"Extras", "Core">>,
       <<"Extras", "Curves">>, <<"Extras", "Geometries">>, <<"Extras", "Helpers">>,
       <<"Extras", "Objects">> >>

SlashForm(names) == JoinSegs([i \in 1..Len(names) |-> <<names[i]>>]) \o <<SEP>>
DotForm(names) ==
    [i \in 1..(2 * Len(names)) |->
        IF i = 2 * Len(names) THEN SEP ELSE IF i % 2 = 1 THEN names[(i + 1) \div 2] ELSE DOT]

RECURSIVE ApplyReplacements(_, _)
ApplyReplacements(url, pairs) ==
    IF Len(pairs) = 0 THEN url
    ELSE ApplyReplacements(ReplaceFirst(url, SlashForm(pairs[1]), DotForm(pairs[1])),
                           Tail(pairs))

\* processDocsUrl
processDocsUrl(modulePath) ==
    LET refTokens == Split(modulePath)
        stripped  == [refTokens EXCEPT ![Len(refTokens)] = BasenameExt(@, EXT_JS)]
    IN  ApplyReplacements(<<"http://threejs.org/docs/#api/">> \o JoinSegs(stripped),
                          DocsUrlReplacements)

\* new PythonWrapper(modulePath, className): Ok of the wrapper, or the error
\* the constructor throws
PythonWrapper(modulePath, classNameOpt) ==
    Bind(WrapperParts("py", modulePath, classNameOpt), LAMBDA parts :
    Bind(AbsDirname(Resolve(modulePath)), LAMBDA destDir :
    Bind(Exists(pyFiles, PyDestPath(modulePath, WrapperClassName(modulePath, classNameOpt))),
         LAMBDA hasOverride :
        IF ~parts.ok THEN parts
        ELSE Ok([className |-> parts.value.className,
                 outputFilename |-> PyAutoDestPath(modulePath, parts.value.className),
                 hasOverride |-> hasOverride,
                 dependencies |-> parts.value.dependencies,
                 superClass |-> parts.value.superClass,
                 output |->
                    [now |-> run,
                     threejs_docs_url |-> processDocsUrl(modulePath),
                     py_base_relative_path |->
                        relativePathToPythonImportPath(Relative(destDir, <<>>)),
                     constructorArgs |-> parts.value.constructorArgs,
                     hasParameters |-> InList(parts.value.config.constructorArgs, PARAMETERS),
                     className |-> parts.value.className,
                     modelName |-> parts.value.className \o <<"Model">>,
                     superClass |-> parts.value.superClass,
                     properties |-> parts.value.config.properties,
                     dependencies |-> parts.value.dependencies,
                     hasOverride |-> hasOverride,
                     isCustom |-> InList(CUSTOM_CLASSES, modulePath)]]))))

Wrapper(lang, modulePath, classNameOpt) ==
    IF lang = "js" THEN JavascriptWrapper(modulePath, classNameOpt)
    ELSE PythonWrapper(modulePath, classNameOpt)

---------------------------------------------------------------------------
(* Directory listings and writeIndexForDir.                                *)

IsPrefix(a, b) == Len(a) <= Len(b) /\ SubSeq(b, 1, Len(a)) = a

\* fse.readdir(dirAbs): the names of the files and directories in it
ReadDir(files, dirAbs) ==
    {p[Len(dirAbs) + 1] : p \in {q \in DOMAIN files : IsPrefix(dirAbs, q) /\ Len(q) > Len(dirAbs)}}

\* the directories of a tree below its source directory
DirsOf(files) == UNION {{SubSeq(p, 1, n) : n \in 1..(Len(p) - 1)} : p \in DOMAIN files}

\* the path the glob '**/' reports for a directory: 'geo/'
GlobDirPath(dirAbs) == JoinSegs(dirAbs) \o <<SEP>>

Contains(s, lexeme) == \E i \in 1..Len(s) : s[i] = lexeme

\* RE_AUTOGEN_EXT.test(filePath)
IsAutogenJs(filePath) == EndsWith(filePath, JS_AUTOGEN_EXT)

\* lines 535-541 and 567-573: the exclude patterns
JsExcluded(filePath) ==
    \/ EndsWith(filePath, <<DOT, "swp">>)
    \/ EndsWith(filePath, <<DOT, "DS_Store">>)
    \/ EndsWith(filePath, <<"index", DOT, "js">>)
    \/ filePath = <<DOT, SEP, "embed", DOT, "js">>
    \/ filePath = <<DOT, SEP, "extension", DOT, "js">>

\* lines 583-586: the override a generated file would be replaced by
JsOverridePathOf(filePath) ==
    <<DOT, SEP>> \o PathJoin(Dirname(filePath), BasenameExt(filePath, JS_AUTOGEN_EXT) \o EXT_JS)

\* a filter that does not look for the override of a generated file
JsIndexKeepsUnlessExcluded(dirPath, dirFiles, filePath) ==
    IF Contains(dirPath, "_base") /\ IsAutogenJs(filePath) THEN FALSE
    ELSE ~JsExcluded(filePath)

\* lines 559-597: whether the filter keeps filePath, dirFiles being the
\* mapped listing
JsIndexKeeps(dirPath, dirFiles, filePath) ==
    IF Contains(dirPath, "_base") /\ IsAutogenJs(filePath) THEN FALSE
    ELSE IF JsExcluded(filePath) THEN FALSE
    ELSE IF IsAutogenJs(filePath) /\ JsOverridePathOf(filePath) \in dirFiles THEN FALSE
    ELSE TRUE

\* lines 554-556: './' + path.join(dirPath, filename)
JsDirFiles(dirPath, names) == {<<DOT, SEP>> \o PathJoin(dirPath, name) : name \in names}

\* lines 599-602: the submodules of the index of a directory with these names
JsSubmodules(dirPath, names) ==
    Bind(JsDirFiles(dirPath, names), LAMBDA dirFiles :
        {<<DOT, SEP>> \o Basename(filePath) :
            filePath \in {f \in dirFiles : JsIndexKeeps(dirPath, dirFiles, f)}})

\* writeIndexForDir(dirPath, isTopLevel) on a directory with these names:
\* the file it writes
writeIndexForDir(dirPath, isTopLevel, names) ==
    [path |-> ResolveIn(Resolve(dirPath), <<"index", DOT, "js">>),
     content |-> [kind |-> "js_index",
                  ctx |-> [now |-> run, top_level |-> isTopLevel,
                           submodules |-> JsSubmodules(dirPath, names)]]]

---------------------------------------------------------------------------
(* The JavaScript pipeline: createJavascriptFiles.                         *)

VARIABLES
    threeModules,   \* the module paths the glob over the three.js sources yields
    jsPhase,        \* "three", "custom", "index", "top", "done"
    jsTodo,         \* the glob's matches still to be reported
    jsPending,      \* writes in flight: [path, content, tracked]; tracked: its
                    \* promise is among those the phase's Promise.all waits for
    jsLog,          \* what each createJavascriptWrapper call returned
    jsIssued,       \* the path of every write the pipeline has issued
    jsDirsMust,     \* the directories there were when the glob over them began
    jsDirsDone,     \* the directories writeIndexForDir has read
    jsIndexed       \* per directory read: the mapped listing and the submodules

jsVars == <<jsPhase, jsTodo, jsPending, jsLog, jsIssued, jsDirsMust, jsDirsDone, jsIndexed>>

Tracked(pending) == {w \in pending : w.tracked}

\* a createJavascriptWrapper without its try/catch around the constructor:
\* the write is started whether or not the wrapper was made
JsTaskUncaught(modulePath, classNameOpt, tracked) ==
    Bind(JavascriptWrapper(modulePath, classNameOpt), LAMBDA wrapper :
        [log |-> [modulePath |-> modulePath,
                  className |-> WrapperClassName(modulePath, classNameOpt),
                  primary |-> Len(classNameOpt) = 0,
                  returned |-> "write",
                  err |-> wrapper.err],
         writes |-> {[path |-> JsAutoDestPath(modulePath, classNameOpt),
                      content |-> [kind |-> "js_wrapper",
                                   ctx |-> IF wrapper.ok THEN wrapper.value.output
                                           ELSE EmptyRec],
                      tracked |-> tracked]}])

\* createJavascriptWrapper(modulePath, className): the value it returns and
\* the write it starts
JsTask(modulePath, classNameOpt, tracked) ==
    Bind(JavascriptWrapper(modulePath, classNameOpt), LAMBDA wrapper :
        [log |-> [modulePath |-> modulePath,
                  className |-> WrapperClassName(modulePath, classNameOpt),
                  primary |-> Len(classNameOpt) = 0,
                  returned |-> IF wrapper.ok THEN "write" ELSE "false",
                  err |-> wrapper.err],
         writes |-> IF wrapper.ok
                    THEN {[path |-> wrapper.value.outputFilename,
                           content |-> [kind |-> "js_wrapper", ctx |-> wrapper.value.output],
                           tracked |-> tracked]}
                    ELSE {}])

\* mapFn(match) for a module: the call for the module, whose promise is
\* collected, the calls its constructor makes for the extra definitions,
\* whose promises are dropped, and the calls their constructors make
JsTasks(modulePath) ==
    {JsTask(modulePath, <<>>, TRUE)} \cup
    Bind(LaunchedExtras(modulePath, <<>>), LAMBDA extras :
        {JsTask(modulePath, <<extras[i]>>, FALSE) : i \in 1..Len(extras)} \cup
        UNION {Bind(LaunchedExtras(modulePath, <<extras[i]>>), LAMBDA nested :
                   {JsTask(modulePath, <<nested[j]>>, FALSE) : j \in 1..Len(nested)}) :
               i \in 1..Len(extras)})

JsStart(tasks) ==
    /\ jsPending' = jsPending \cup UNION {t.writes : t \in tasks}
    /\ jsLog' = jsLog \cup {t.log : t \in tasks}
    /\ jsIssued' = jsIssued \cup {w.path : w \in UNION {t.writes : t \in tasks}}

\* the glob reports a match: mapFn(match)
JsMatch ==
    /\ jsPhase = "three"
    /\ Len(jsTodo) > 0
    /\ \E tasks \in {JsTasks(Head(jsTodo))} : JsStart(tasks)
    /\ jsTodo' = Tail(jsTodo)
    /\ UNCHANGED <<jsPhase, jsDirsMust, jsDirsDone, jsIndexed, jsFiles>>

\* the glob has ended and Promise.all(promises) resolves: the custom classes
\* are mapped over in one loop
JsThreeEnd ==
    /\ jsPhase = "three"
    /\ Len(jsTodo) = 0
    /\ Tracked(jsPending) = {}
    /\ \E tasks \in {UNION {JsTasks(CUSTOM_CLASSES[i]) : i \in 1..Len(CUSTOM_CLASSES)}} :
          JsStart(tasks)
    /\ jsPhase' = "custom"
    /\ UNCHANGED <<jsTodo, jsDirsMust, jsDirsDone, jsIndexed, jsFiles>>

\* fse.outputFile finishes
JsWriteDone(w) ==
    /\ w \in jsPending
    /\ jsFiles' = [p \in DOMAIN jsFiles \cup {w.path} |->
                      IF p = w.path THEN w.content ELSE jsFiles[p]]
    /\ jsPending' = jsPending \ {w}
    /\ UNCHANGED <<jsPhase, jsTodo, jsLog, jsIssued, jsDirsMust, jsDirsDone, jsIndexed>>

\* Promise.all over the custom classes resolves: writeJavascriptIndexFiles()
JsCustomEnd ==
    /\ jsPhase = "custom"
    /\ Tracked(jsPending) = {}
    /\ jsPhase' = "index"
    /\ jsDirsMust' = DirsOf(jsFiles)
    /\ UNCHANGED <<jsTodo, jsPending, jsLog, jsIssued, jsDirsDone, jsIndexed, jsFiles>>

\* writeIndexForDir: readdir answers, the index is rendered, its write starts
JsIndexDir(dirAbs) ==
    /\ \/ jsPhase = "index" /\ dirAbs \in DirsOf(jsFiles)
       \/ jsPhase = "top" /\ dirAbs = <<>>
    /\ dirAbs \notin jsDirsDone
    /\ \E isTopLevel \in {jsPhase = "top"} :
       \E dirPath \in {IF isTopLevel THEN CUR ELSE GlobDirPath(dirAbs)} :
       \E names \in {ReadDir(jsFiles, dirAbs)} :
       \E index \in {writeIndexForDir(dirPath, isTopLevel, names)} :
           /\ jsPending' = jsPending \cup
                  {[path |-> index.path, content |-> index.content, tracked |-> TRUE]}
           /\ jsIssued' = jsIssued \cup {index.path}
           /\ jsIndexed' = [d \in DOMAIN jsIndexed \cup {dirAbs} |->
                               IF d = dirAbs
                               THEN [dirPath |-> dirPath,
                                     dirFiles |-> JsDirFiles(dirPath, names),
                                     submodules |-> index.content.ctx.submodules]
                               ELSE jsIndexed[d]]
    /\ jsDirsDone' = jsDirsDone \cup {dirAbs}
    /\ UNCHANGED <<jsPhase, jsTodo, jsLog, jsDirsMust, jsFiles>>

\* the glob over the directories has ended (a directory made while it ran
\* may have been missed) and every index is written: the
\* top-level index is next
JsIndexEnd ==
    /\ jsPhase = "index"
    /\ jsDirsMust \subseteq jsDirsDone
    /\ Tracked(jsPending) = {}
    /\ jsPhase' = "top"
    /\ UNCHANGED <<jsTodo, jsPending, jsLog, jsIssued, jsDirsMust, jsDirsDone, jsIndexed, jsFiles>>

\* the top-level index is written: createJavascriptFiles() resolves
JsTopEnd ==
    /\ jsPhase = "top"
    /\ <<>> \in jsDirsDone
    /\ Tracked(jsPending) = {}
    /\ jsPhase' = "done"
    /\ UNCHANGED <<jsTodo, jsPending, jsLog, jsIssued, jsDirsMust, jsDirsDone, jsIndexed, jsFiles>>

---------------------------------------------------------------------------
(* The Python pipeline: createPythonFiles.                                 *)

VARIABLES
    pyPhase,        \* "three", "custom", "baseInit", "scan", "top", "done"
    pyTodo,         \* the glob's matches still to be reported
    pyPending,      \* operations in flight: [op, path, content, tracked, thenInit]
    pyLog,          \* what each createPythonWrapper call returned
    pyIssued,       \* the path of every write or ensureFile the pipeline has issued
    pyDirsMust,     \* the directories there were when the glob over *.py began
    pyDirsDone,     \* the directories the glob over *.py has read
    pyModules       \* createTopLevelPythonModuleFile: the modules pushed so far

pyVars == <<pyPhase, pyTodo, pyPending, pyLog, pyIssued, pyDirsMust, pyDirsDone, pyModules>>

INIT_PY == <<"__init__", DOT, "py">>
NoContent == [kind |-> "py_init", ctx |-> EmptyRec]

\* createPythonModuleInitFile(modulePath): the ensureFile it starts
createPythonModuleInitFile(modulePath) ==
    [op |-> "ensure", path |-> ResolveIn(Resolve(Dirname(modulePath)), INIT_PY),
     content |-> NoContent, tracked |-> TRUE, thenInit |-> <<>>]

\* createPythonWrapper(modulePath, className): the value it returns and the
\* write it starts; thenInit is the module whose package marker the caller
\* makes once the write has finished
PyTask(modulePath, classNameOpt, tracked) ==
    Bind(PythonWrapper(modulePath, classNameOpt), LAMBDA wrapper :
        [log |-> [modulePath |-> modulePath,
                  className |-> WrapperClassName(modulePath, classNameOpt),
                  primary |-> Len(classNameOpt) = 0,
                  returned |-> IF wrapper.ok THEN "write" ELSE "false",
                  err |-> wrapper.err],
         writes |-> IF wrapper.ok
                    THEN {[op |-> "write", path |-> wrapper.value.outputFilename,
                           content |-> [kind |-> "py_wrapper", ctx |-> wrapper.value.output],
                           tracked |-> tracked,
                           thenInit |-> IF tracked THEN <<modulePath>> ELSE <<>>]}
                    ELSE IF tracked
                    \* Promise.resolve(false).then(...): the marker is made at once
                    THEN {createPythonModuleInitFile(modulePath)}
                    ELSE {}])

PyTasks(modulePath) ==
    {PyTask(modulePath, <<>>, TRUE)} \cup
    Bind(LaunchedExtras(modulePath, <<>>), LAMBDA extras :
        {PyTask(modulePath, <<extras[i]>>, FALSE) : i \in 1..Len(extras)} \cup
        UNION {Bind(LaunchedExtras(modulePath, <<extras[i]>>), LAMBDA nested :
                   {PyTask(modulePath, <<nested[j]>>, FALSE) : j \in 1..Len(nested)}) :
               i \in 1..Len(extras)})

PyStart(tasks) ==
    /\ pyPending' = pyPending \cup UNION {t.writes : t \in tasks}
    /\ pyLog' = pyLog \cup {t.log : t \in tasks}
    /\ pyIssued' = pyIssued \cup {w.path : w \in UNION {t.writes : t \in tasks}}

\* the glob reports a match: mapFn(match)
PyMatch ==
    /\ pyPhase = "three"
    /\ Len(pyTodo) > 0
    /\ \E tasks \in {PyTasks(Head(pyTodo))} : PyStart(tasks)
    /\ pyTodo' = Tail(pyTodo)
    /\ UNCHANGED <<pyPhase, pyDirsMust, pyDirsDone, pyModules, pyFiles>>

\* the glob has ended and Promise.all(promises) resolves: the custom classes
PyThreeEnd ==
    /\ pyPhase = "three"
    /\ Len(pyTodo) = 0
    /\ Tracked(pyPending) = {}
    /\ \E tasks \in {UNION {PyTasks(CUSTOM_CLASSES[i]) : i \in 1..Len(CUSTOM_CLASSES)}} :
          PyStart(tasks)
    /\ pyPhase' = "custom"
    /\ UNCHANGED <<pyTodo, pyDirsMust, pyDirsDone, pyModules, pyFiles>>

\* fse.outputFile finishes; the write of a mapped module is followed by
\* createPythonModuleInitFile
PyWriteDone(w) ==
    /\ w \in pyPending
    /\ w.op = "write"
    /\ pyFiles' = [p \in DOMAIN pyFiles \cup {w.path} |->
                      IF p = w.path THEN w.content ELSE pyFiles[p]]
    /\ pyPending' = (pyPending \ {w}) \cup
                    (IF Len(w.thenInit) = 1
                     THEN {createPythonModuleInitFile(w.thenInit[1])} ELSE {})
    /\ pyIssued' = pyIssued \cup
                    (IF Len(w.thenInit) = 1
                     THEN {createPythonModuleInitFile(w.thenInit[1]).path} ELSE {})
    /\ UNCHANGED <<pyPhase, pyTodo, pyLog, pyDirsMust, pyDirsDone, pyModules>>

\* fse.ensureFile finishes: the file is made if it was not there
PyEnsureDone(w) ==
    /\ w \in pyPending
    /\ w.op = "ensure"
    /\ pyFiles' = [p \in DOMAIN pyFiles \cup {w.path} |->
                      IF p \in DOMAIN pyFiles THEN pyFiles[p] ELSE w.content]
    /\ pyPending' = pyPending \ {w}
    /\ UNCHANGED <<pyPhase, pyTodo, pyLog, pyIssued, pyDirsMust, pyDirsDone, pyModules>>

\* Promise.all over the custom classes resolves:
\* createPythonModuleInitFile('_base/__init__')
PyCustomEnd ==
    /\ pyPhase = "custom"
    /\ Tracked(pyPending) = {}
    /\ LET marker == createPythonModuleInitFile(<<"_base", SEP, "__init__">>)
       IN  /\ pyPending' = pyPending \cup {marker}
           /\ pyIssued' = pyIssued \cup {marker.path}
    /\ pyPhase' = "baseInit"
    /\ UNCHANGED <<pyTodo, pyLog, pyDirsMust, pyDirsDone, pyModules, pyFiles>>

\* createTopLevelPythonModuleFile() starts its glob over '**/*.py'
PyBaseInitEnd ==
    /\ pyPhase = "baseInit"
    /\ Tracked(pyPending) = {}
    /\ pyPhase' = "scan"
    /\ pyDirsMust' = DirsOf(pyFiles) \cup {<<>>}
    /\ UNCHANGED <<pyTodo, pyPending, pyLog, pyIssued, pyDirsDone, pyModules, pyFiles>>

\* ignorePyFiles
PyIgnored(filePath) ==
    \/ Basename(filePath) = INIT_PY
    \/ filePath = <<"install", DOT, "py">>
    \/ filePath = <<"sage", DOT, "py">>

\* lines 889-914: the module pushed for a match, if any
PyModuleOf(filePath) ==
    Bind(Dirname(filePath), LAMBDA modulePath :
    Bind(ReplaceDots(BasenameExt(filePath, EXT_PY)), LAMBDA moduleName :
        LET overrideName == ReplaceFirst(moduleName, <<"_">> \o AUTOGEN_EXT, <<>>)
            overridePath == ResolveIn(Resolve(modulePath), overrideName \o EXT_PY)
            importPath   == IF modulePath # CUR
                            THEN <<DOT>> \o JoinWith(Split(modulePath), DOT)
                                 \o <<DOT>> \o moduleName
                            ELSE <<DOT>> \o moduleName
        IN  IF Contains(moduleName, AUTOGEN_EXT[1]) /\ Exists(pyFiles, overridePath)
            THEN {}
            ELSE {[pyRelativePath |-> importPath]}))

\* the glob reads a directory and reports its *.py files
PyScanDir(dirAbs) ==
    /\ pyPhase = "scan"
    /\ dirAbs \in DirsOf(pyFiles) \cup {<<>>}
    /\ dirAbs \notin pyDirsDone
    /\ \E matches \in {{filePath \in {JoinSegs(Append(dirAbs, name)) :
                                            name \in ReadDir(pyFiles, dirAbs)} :
                              /\ Resolve(filePath) \in DOMAIN pyFiles
                              /\ EndsWith(filePath, EXT_PY)
                              /\ ~PyIgnored(filePath)}} :
          pyModules' = pyModules \cup UNION {PyModuleOf(f) : f \in matches}
    /\ pyDirsDone' = pyDirsDone \cup {dirAbs}
    /\ UNCHANGED <<pyPhase, pyTodo, pyPending, pyLog, pyIssued, pyDirsMust, pyFiles>>

\* the glob has ended: the top-level __init__.py is rendered, its write starts
PyScanEnd ==
    /\ pyPhase = "scan"
    /\ pyDirsMust \subseteq pyDirsDone
    /\ LET top == [op |-> "write", path |-> <<INIT_PY>>,
                   content |-> [kind |-> "py_top",
                                ctx |-> [now |-> run, modules |-> pyModules]],
                   tracked |-> TRUE, thenInit |-> <<>>]
       IN  /\ pyPending' = pyPending \cup {top}
           /\ pyIssued' = pyIssued \cup {top.path}
    /\ pyPhase' = "top"
    /\ UNCHANGED <<pyTodo, pyLog, pyDirsMust, pyDirsDone, pyModules, pyFiles>>

\* the top-level file is written: createPythonFiles() resolves
PyTopEnd ==
    /\ pyPhase = "top"
    /\ Tracked(pyPending) = {}
    /\ pyPhase' = "done"
    /\ UNCHANGED <<pyTodo, pyPending, pyLog, pyIssued, pyDirsMust, pyDirsDone, pyModules, pyFiles>>

---------------------------------------------------------------------------
(* Runs of the script, and the inputs of the pipelines.                    *)

VARIABLES
    prevJs,         \* the JavaScript tree as the run before left it
    prevPy,         \* the Python tree as the run before left it
    wOut            \* outcome of a wrapper constructed on its own: [state, lang,
                    \* modulePath, classNameOpt, result]

vars == <<classConfigs, threeModules, jsFiles, pyFiles, run, resolveVars, wOut,
          jsVars, pyVars, prevJs, prevPy>>

\* runs of the script in one behaviour
MaxRuns == 2

HandWritten == [kind |-> "hand", ctx |-> EmptyRec]

\* a tree holding these hand-written files
TreeOf(paths) == [p \in paths |-> HandWritten]

\* the override file of a class in a directory
JsOverride(dir, className) == << <<dir>>, className \o EXT_JS >>
PyOverride(dir, className) == << <<dir>>, className \o EXT_PY >>

\* the Config Store of BaseGeometry <- Shape <- Ring, with Ring_Outline
\* defined in Ring's module
Store(shapeDir, withShape, ringProps, ringDeps, ringArgs) ==
    << [k |-> DEFAULTS, v |-> DefaultsRec],
       [k |-> BASE, v |-> ClassRec(RelPath("core", BASE), <<>>,
                                   PlainProps(<<"p", "q">>, BASE))] >>
    \o (IF withShape
        THEN << [k |-> SHAPE, v |-> ClassRec(RelPath(shapeDir, SHAPE), <<BASE>>,
                                             PlainProps(<<"p">>, SHAPE))] >>
        ELSE <<>>)
    \o << [k |-> RING,
           v |-> [dependencies |-> ringDeps, constructorArgs |-> ringArgs]
                 @@ ClassRec(RelPath("geo", RING), <<SHAPE>>, ringProps)],
          [k |-> OUTLINE, v |-> ClassRec(RelPath("geo", RING), <<SHAPE>>, <<>>)] >>

ResolveIdle ==
    /\ rArg = <<>> /\ rStack = <<>> /\ rRet = <<>> /\ rSeen = 0 /\ rOut = Idle

WrapIdle ==
    wOut = [state |-> "idle", lang |-> "none", modulePath |-> <<>>,
            classNameOpt |-> <<>>, result |-> Err("none")]

JsAt(phase) ==
    /\ jsPhase = phase /\ jsTodo = threeModules /\ jsPending = {} /\ jsLog = {}
    /\ jsIssued = {} /\ jsDirsMust = {} /\ jsDirsDone = {} /\ jsIndexed = EmptyRec

PyAt(phase) ==
    /\ pyPhase = phase /\ pyTodo = threeModules /\ pyPending = {} /\ pyLog = {}
    /\ pyIssued = {} /\ pyDirsMust = {} /\ pyDirsDone = {} /\ pyModules = {}

\* the script is run again once the process of the run before has exited
Rerun ==
    /\ jsPhase = "done" /\ pyPhase = "done"
    /\ jsPending = {} /\ pyPending = {}
    /\ run < MaxRuns
    /\ run' = run + 1
    /\ prevJs' = jsFiles /\ prevPy' = pyFiles
    /\ jsPhase' = "three" /\ jsTodo' = threeModules /\ jsLog' = {}
    /\ jsDirsMust' = {} /\ jsDirsDone' = {} /\ jsIndexed' = EmptyRec
    /\ pyPhase' = "three" /\ pyTodo' = threeModules /\ pyLog' = {}
    /\ pyDirsMust' = {} /\ pyDirsDone' = {} /\ pyModules' = {}
    /\ UNCHANGED <<classConfigs, threeModules, jsFiles, pyFiles, jsPending, pyPending,
                   jsIssued, pyIssued, resolveVars, wOut>>

---------------------------------------------------------------------------
(* Spec: generateFiles(), both pipelines side by side.                     *)

PipelineOverrides == { {}, {RING, SHAPE} }

Init ==
    /\ \E failure \in {"none", "noShape", "badArgs"}, overridden \in PipelineOverrides :
        /\ classConfigs = Store("geo", failure # "noShape",
                                PlainProps(<<"inner">>, RING), <<>>,
                                IF failure = "badArgs" THEN <<<<"outer">>>> ELSE <<<<"inner">>>>)
        /\ threeModules = << Unit("geo", SHAPE), Unit("geo", RING) >>
        /\ jsFiles = TreeOf({JsOverride("_base", THREE)} \cup
                            {JsOverride("geo", c) : c \in overridden})
        /\ pyFiles = TreeOf({PyOverride("_base", THREE)} \cup
                            {PyOverride("geo", c) : c \in overridden})
    /\ run = 1
    /\ prevJs = EmptyRec /\ prevPy = EmptyRec
    /\ ResolveIdle /\ WrapIdle
    /\ JsAt("three") /\ PyAt("three")

\* what a step of one pipeline leaves alone
JsOnly == UNCHANGED <<classConfigs, threeModules, pyFiles, run, resolveVars, wOut,
                      pyVars, prevJs, prevPy>>
PyOnly == UNCHANGED <<classConfigs, threeModules, jsFiles, run, resolveVars, wOut,
                      jsVars, prevJs, prevPy>>

Next ==
    \/ JsMatch /\ JsOnly
    \/ JsThreeEnd /\ JsOnly
    \/ \E w \in jsPending : JsWriteDone(w) /\ JsOnly
    \/ JsCustomEnd /\ JsOnly
    \/ \E d \in DirsOf(jsFiles) \cup {<<>>} : JsIndexDir(d) /\ JsOnly
    \/ JsIndexEnd /\ JsOnly
    \/ JsTopEnd /\ JsOnly
    \/ PyMatch /\ PyOnly
    \/ PyThreeEnd /\ PyOnly
    \/ \E w \in pyPending : PyWriteDone(w) /\ PyOnly
    \/ \E w \in pyPending : PyEnsureDone(w) /\ PyOnly
    \/ PyCustomEnd /\ PyOnly
    \/ PyBaseInitEnd /\ PyOnly
    \/ \E d \in DirsOf(pyFiles) \cup {<<>>} : PyScanDir(d) /\ PyOnly
    \/ PyScanEnd /\ PyOnly
    \/ PyTopEnd /\ PyOnly
    \/ Rerun

Spec == Init /\ [][Next]_vars

---------------------------------------------------------------------------
(* SpecResolve: getClassConfig and getExtraDefines on a family of Config   *)
(* Stores, one call per behaviour.                                         *)

PipelinesIdle ==
    /\ threeModules = <<>>
    /\ jsFiles = EmptyRec /\ pyFiles = EmptyRec
    /\ run = 1 /\ prevJs = EmptyRec /\ prevPy = EmptyRec
    /\ JsAt("idle") /\ PyAt("idle")

InitResolve ==
    /\ classConfigs \in ResolveStores
    /\ ResolveIdle /\ WrapIdle /\ PipelinesIdle

ResolveOnly ==
    UNCHANGED <<threeModules, jsFiles, pyFiles, run, wOut, jsVars, pyVars, prevJs, prevPy>>

NextResolve ==
    \/ \E name \in QueryNames : GccCall(name) /\ ResolveOnly
    \/ GccEnter /\ ResolveOnly
    \/ GccReturn /\ ResolveOnly
    \/ \E name \in QueryNames : GedCall(name) /\ ResolveOnly

SpecResolve == InitResolve /\ [][NextResolve]_vars

---------------------------------------------------------------------------
(* SpecWrap: one wrapper constructed, for a family of Config Stores and    *)
(* override files.                                                         *)

\* a wrapper is constructed on its own
WrapConstruct(lang, modulePath, classNameOpt) ==
    /\ wOut.state = "idle"
    /\ wOut' = [state |-> "done", lang |-> lang, modulePath |-> modulePath,
                classNameOpt |-> classNameOpt,
                result |-> Wrapper(lang, modulePath, classNameOpt)]
    /\ UNCHANGED <<classConfigs, threeModules, jsFiles, pyFiles, run, resolveVars,
                   jsVars, pyVars, prevJs, prevPy>>

ThreeProp(name, typeName) == <<[k |-> name, v |-> Prop("ThreeType", typeName, RING)]>>

WrapRingProps ==
    { PlainProps(<<"inner">>, RING),
      ThreeProp(<<"shape">>, TnStr(SHAPE)),
      ThreeProp(<<"outline">>, TnStr(OUTLINE)),
      ThreeProp(<<"ghost">>, TnStr(GHOST)),
      ThreeProp(<<"any">>, TnStr(<<>>)),
      ThreeProp(<<"self">>, TnStr(THIS)),
      ThreeProp(<<"odd">>, TnNone),
      ThreeProp(<<"both">>, TnArr(<<SHAPE, OUTLINE>>)),
      ThreeProp(<<"bad">>, TnArr(<<SHAPE, NonString>>)),
      ThreeProp(<<"outline">>, TnStr(OUTLINE)) \o ThreeProp(<<"shape">>, TnStr(SHAPE)) }

WrapRingDeps == { <<>>, <<SHAPE>>, <<OUTLINE>>, <<GHOST>>, <<NonString>>, <<BASE_THREE>> }

InitWrap ==
    /\ \E shapeDir \in {"geo", "_base"}, ringProps \in WrapRingProps,
          ringDeps \in WrapRingDeps, overridden \in SUBSET {RING, SHAPE, OUTLINE},
          shapeProps \in { PlainProps(<<"p">>, SHAPE),
                           <<[k |-> <<"child">>,
                              v |-> Prop("ThreeType", TnStr(OUTLINE), SHAPE)]>> } :
        /\ \E store \in {Store(shapeDir, TRUE, ringProps, ringDeps, <<>>)} :
               classConfigs =
                   Put(store, SHAPE, [Get(store, SHAPE) EXCEPT !.properties = shapeProps])
        /\ threeModules = << Unit(shapeDir, SHAPE), Unit("geo", RING) >>
        /\ jsFiles = TreeOf({JsOverride("_base", THREE)} \cup
                            {JsOverride(IF c = SHAPE THEN shapeDir ELSE "geo", c) :
                                c \in overridden})
        /\ pyFiles = TreeOf({PyOverride("_base", THREE)} \cup
                            {PyOverride(IF c = SHAPE THEN shapeDir ELSE "geo", c) :
                                c \in overridden})
    /\ run = 1 /\ prevJs = EmptyRec /\ prevPy = EmptyRec
    /\ ResolveIdle /\ WrapIdle
    /\ JsAt("idle") /\ PyAt("idle")

\* the wrapper of a mapped module, of a custom class, of an extra definition
WrapModule(lang) ==
    \E i \in 1..Len(threeModules) : WrapConstruct(lang, threeModules[i], <<>>)
WrapCustom(lang) ==
    \E i \in 1..Len(CUSTOM_CLASSES) : WrapConstruct(lang, CUSTOM_CLASSES[i], <<>>)
WrapExtra(lang) ==
    \E i \in 1..Len(threeModules) :
        \E extras \in {LaunchedExtras(threeModules[i], <<>>)} :
            \E j \in 1..Len(extras) : WrapConstruct(lang, threeModules[i], <<extras[j]>>)

NextWrap ==
    \/ \E lang \in {"js", "py"} : WrapModule(lang)
    \/ \E lang \in {"js", "py"} : WrapCustom(lang)
    \/ \E lang \in {"js", "py"} : WrapExtra(lang)

SpecWrap == InitWrap /\ [][NextWrap]_vars

---------------------------------------------------------------------------
(* SpecIndex: writeIndexForDir on a family of directories.                 *)

IndexNames ==
    { RING \o JS_AUTOGEN_EXT, RING \o EXT_JS,
      SHAPE \o JS_AUTOGEN_EXT, SHAPE \o EXT_JS,
      <<"Vertex", "index">> \o JS_AUTOGEN_EXT, <<"Vertex", "index", DOT, "js">>,
      <<"index", DOT, "js">>, <<"embed">> \o JS_AUTOGEN_EXT, <<"embed", DOT, "js">>,
      <<"Ring", DOT, "js", DOT, "swp">>, <<DOT, "DS_Store">> }

InitIndex ==
    /\ classConfigs = Store("geo", TRUE, <<>>, <<>>, <<>>)
    /\ threeModules = <<>>
    /\ \E dirAbs \in {<<>>, << <<"geo">> >>, << <<"_base">> >>},
          names \in SUBSET IndexNames :
        /\ jsFiles = TreeOf({Append(dirAbs, name) : name \in names})
        /\ jsPhase = IF dirAbs = <<>> THEN "top" ELSE "index"
    /\ jsTodo = <<>> /\ jsPending = {} /\ jsLog = {} /\ jsIssued = {}
    /\ jsDirsMust = {} /\ jsDirsDone = {} /\ jsIndexed = EmptyRec
    /\ pyFiles = EmptyRec /\ PyAt("idle")
    /\ run = 1 /\ prevJs = EmptyRec /\ prevPy = EmptyRec
    /\ ResolveIdle /\ WrapIdle

NextIndex ==
    \/ \E d \in DirsOf(jsFiles) \cup {<<>>} : JsIndexDir(d) /\ JsOnly
    \/ \E w \in jsPending : JsWriteDone(w) /\ JsOnly

SpecIndex == InitIndex /\ [][NextIndex]_vars

---------------------------------------------------------------------------
(* SpecHelpers: getExtraDefines and the launches of the extra definitions  *)
(* on Config Stores whose classes share source units, and                  *)
(* relativePathToPythonImportPath on a family of relative paths.           *)

\* '..' segments a path starts with, and name segments that follow them
MaxUp == 2
MaxNames == 2

\* the relative paths path.relative can give, with and without a leading '.'
ImportPaths ==
    { JoinSegs(lead \o [i \in 1..k |-> UP] \o names) :
        lead \in {<<>>, <<CUR>>}, k \in 0..MaxUp,
        names \in UNION {[1..n -> {<<"geo">>, <<"Ring", "_", "autogen">>}] : n \in 0..MaxNames} }

\* Config Stores in which Shape, Ring, Ring_Outline and a record whose key
\* starts with '_' share relativePaths in every way, in two key orders
ExtraStores ==
    { << [k |-> DEFAULTS, v |-> DefaultsRec],
         [k |-> BASE, v |-> ClassRec(RelPath("core", BASE), <<>>, PlainProps(<<"p">>, BASE))] >>
      \o (IF outlineFirst
          THEN << [k |-> OUTLINE, v |-> ClassRec(RelPath("geo", po), <<SHAPE>>, <<>>)] >>
          ELSE <<>>)
      \o << [k |-> <<"_", "Ring">>, v |-> ClassRec(RelPath("geo", pu), <<>>, <<>>)],
            [k |-> SHAPE, v |-> ClassRec(RelPath("geo", ps), <<BASE>>, <<>>)],
            [k |-> RING,  v |-> ClassRec(RelPath("geo", RING), <<SHAPE>>, <<>>)] >>
      \o (IF outlineFirst
          THEN <<>>
          ELSE << [k |-> OUTLINE, v |-> ClassRec(RelPath("geo", po), <<SHAPE>>, <<>>)] >>) :
        outlineFirst \in BOOLEAN,
        ps \in {SHAPE, RING},
        po \in {OUTLINE, RING, SHAPE},
        pu \in {<<"_", "Ring">>, RING} }

InitHelpers ==
    /\ classConfigs \in ExtraStores
    /\ threeModules = << Unit("geo", SHAPE), Unit("geo", RING) >>
    /\ jsFiles = EmptyRec /\ pyFiles = EmptyRec
    /\ run = 1 /\ prevJs = EmptyRec /\ prevPy = EmptyRec
    /\ ResolveIdle /\ WrapIdle
    /\ JsAt("three") /\ PyAt("three")

NextHelpers ==
    \/ \E name \in QueryNames : GedCall(name) /\ ResolveOnly
    \/ \E relativePath \in ImportPaths : RpCall(relativePath) /\ ResolveOnly
    \/ JsMatch /\ JsOnly
    \/ PyMatch /\ PyOnly

SpecHelpers == InitHelpers /\ [][NextHelpers]_vars

---------------------------------------------------------------------------
(* Properties of getClassConfig and getExtraDefines (SpecResolve).         *)

\* the root sentinel: the superClass of _defaults
RootSentinel == Get(classConfigs, DEFAULTS).superClass

\* whether the record of a class names a superclass other than the root
NamesSuper(rec) ==
    "superClass" \in DOMAIN rec /\ rec.superClass # <<>> /\ rec.superClass # RootSentinel

\* the superclass chain of a name, most-derived first, and whether it ends at
\* the root within fuel classes
RECURSIVE ChainOf(_, _)
ChainOf(name, fuel) ==
    IF fuel = 0 \/ ~Has(classConfigs, ReplaceDots(name))
    THEN [closed |-> FALSE, classes |-> <<>>]
    ELSE LET rec == Get(classConfigs, ReplaceDots(name))
         IN  IF ~NamesSuper(rec)
             THEN [closed |-> TRUE, classes |-> <<ReplaceDots(name)>>]
             ELSE LET up == ChainOf(rec.superClass, fuel - 1)
                  IN  [closed |-> up.closed, classes |-> <<ReplaceDots(name)>> \o up.classes]

\* the properties a class declares itself
Declared(class) == FieldOr(Get(classConfigs, class), "properties", <<>>)

\* the descriptor of a property in the most-derived class of the chain that
\* declares it
NearestDescriptor(classes, prop) ==
    LET i == CHOOSE j \in 1..Len(classes) :
                 /\ Has(Declared(classes[j]), prop)
                 /\ \A h \in 1..(j - 1) : ~Has(Declared(classes[h]), prop)
    IN  Get(Declared(classes[i]), prop)

GccFinished == rOut.fn = "getClassConfig" /\ rOut.state \in {"returned", "thrown"}

\* C1: for a class whose superclass chain ends at the root, getClassConfig
\* returns, and allProperties holds exactly the property names declared on
\* the chain, each once, each with the descriptor of the most-derived class
\* of the chain that declares it.
C1_AllPropertiesMostDerived ==
    (GccFinished /\ ChainOf(rOut.arg, Len(classConfigs)).closed) =>
        /\ rOut.state = "returned"
        /\ LET classes == ChainOf(rOut.arg, Len(classConfigs)).classes
               all     == rOut.value[1].allProperties
           IN  /\ {all[i].k : i \in 1..Len(all)} =
                      UNION {KeySet(Declared(classes[j])) : j \in 1..Len(classes)}
               /\ \A i, j \in 1..Len(all) : all[i].k = all[j].k => i = j
               /\ \A i \in 1..Len(all) : all[i].v = NearestDescriptor(classes, all[i].k)

\* C1 witness: Ring <- Shape <- BaseGeometry resolved, where Shape shadows
\* BaseGeometry's p and Ring declares q but not p
C1_Witness ==
    /\ GccFinished /\ rOut.state = "returned" /\ rOut.arg = RING
    /\ ChainOf(RING, Len(classConfigs)) = [closed |-> TRUE, classes |-> <<RING, SHAPE, BASE>>]
    /\ Has(Declared(SHAPE), <<"p">>) /\ ~Has(Declared(RING), <<"p">>)
    /\ Has(Declared(RING), <<"q">>)
    /\ Get(rOut.value[1].allProperties, <<"p">>).origin = SHAPE
    /\ Get(rOut.value[1].allProperties, <<"q">>).origin = RING

\* the names reached from a class by following superclass references
RECURSIVE AncestorsOf(_, _)
AncestorsOf(name, fuel) ==
    IF fuel = 0 \/ ~Has(classConfigs, ReplaceDots(name)) THEN {}
    ELSE LET rec == Get(classConfigs, ReplaceDots(name))
         IN  IF ~NamesSuper(rec) THEN {}
             ELSE {ReplaceDots(rec.superClass)} \cup AncestorsOf(rec.superClass, fuel - 1)

OnCycle(name) == ReplaceDots(name) \in AncestorsOf(name, Len(classConfigs))

\* C2: resolving a class on a superclass cycle enters no class twice, returns
\* nothing, and ends in a ConfigCycle failure.
C2_CycleEndsInConfigCycle ==
    (rOut.fn = "getClassConfig" /\ rOut.state # "idle" /\ OnCycle(rOut.arg)) =>
        /\ \A i, j \in 1..Len(rStack) : rStack[i] = rStack[j] => i = j
        /\ rOut.state # "returned"
        /\ rOut.state = "thrown" => rOut.err = "ConfigCycle"

\* whether resolving a name reaches a name that is not a key of the store:
\* the name itself, or an ancestor
RECURSIVE ReachesMissing(_, _)
ReachesMissing(name, fuel) ==
    IF fuel = 0 THEN FALSE
    ELSE IF ~Has(classConfigs, ReplaceDots(name)) THEN TRUE
    ELSE LET rec == Get(classConfigs, ReplaceDots(name))
         IN  NamesSuper(rec) /\ ReachesMissing(rec.superClass, fuel - 1)

\* C10: getClassConfig, for a name that is no key of the store after its dots
\* are replaced or that reaches such a name as an ancestor, and
\* getExtraDefines, for a name that is no key, throw 'invalid class name' and
\* return nothing.
C10_UnknownClassThrows ==
    /\ (GccFinished /\ ReachesMissing(rOut.arg, Len(classConfigs))) =>
           rOut.state = "thrown" /\ rOut.err = "invalid class name" /\ rOut.value = <<>>
    /\ (rOut.fn = "getExtraDefines" /\ ~Has(classConfigs, ReplaceDots(rOut.arg))) =>
           rOut.state = "thrown" /\ rOut.err = "invalid class name" /\ rOut.value = <<>>

\* C10 witness: getClassConfig('Ring') has thrown where Ring and Shape are
\* keys and Shape's superclass is not
C10_Witness ==
    /\ GccFinished /\ rOut.state = "thrown" /\ rOut.arg = RING
    /\ Has(classConfigs, RING) /\ Has(classConfigs, SHAPE)
    /\ Get(classConfigs, RING).superClass = SHAPE
    /\ Get(classConfigs, SHAPE).superClass = GHOST
    /\ ~Has(classConfigs, GHOST)
    /\ rSeen = 2

\* the fields of a resolved configuration that are neither of the property
\* tables: those _defaults holds besides them
ScalarFields == DOMAIN Get(classConfigs, DEFAULTS) \ {"properties", "propsDefinedByThree"}

\* C11: in a resolved configuration a scalar field has the value of _defaults
\* only when no class of the chain sets the field (to another value); when
\* the class omits it and an ancestor sets it, the resolved value is not the
\* value of _defaults.
C11_DefaultOnlyWhenAbsentOnChain ==
    (GccFinished /\ rOut.state = "returned") =>
        LET classes == ChainOf(rOut.arg, Len(classConfigs)).classes
            sets(j, field) ==
                /\ field \in DOMAIN Get(classConfigs, classes[j])
                /\ Get(classConfigs, classes[j])[field] # Get(classConfigs, DEFAULTS)[field]
        IN  \A field \in ScalarFields :
                /\ rOut.value[1][field] = Get(classConfigs, DEFAULTS)[field] =>
                       \A j \in 1..Len(classes) : ~sets(j, field)
                /\ (~sets(1, field) /\ \E j \in 2..Len(classes) : sets(j, field)) =>
                       rOut.value[1][field] # Get(classConfigs, DEFAULTS)[field]

---------------------------------------------------------------------------
(* Properties of getExtraDefines and of the launches (SpecHelpers).        *)

\* the position of a key in the Config Store
KeyIndex(key) == CHOOSE i \in 1..Len(classConfigs) : classConfigs[i].k = key

\* the keys that are to be the extra definitions of a configured class
ExtrasOf(class) ==
    {key \in KeySet(classConfigs) :
        /\ key # class
        /\ key[1] # "_"
        /\ FieldOr(Get(classConfigs, key), "relativePath", <<>>) =
               FieldOr(Get(classConfigs, class), "relativePath", <<>>)}

\* the classes a log shows launched beside the primary class of a module
LaunchedBeside(log, modulePath) ==
    {l.className : l \in {e \in log : e.modulePath = modulePath /\ ~e.primary}}

\* C13: getExtraDefines of a configured class returns exactly the other keys
\* that do not start with '_' and have the class's relativePath, each once,
\* in key order; the generation of a primary class launches one generation
\* for each of them and no other, so the generation of an extra launches none.
C13_ExtrasExactAndLaunchedOnce ==
    /\ (rOut.fn = "getExtraDefines" /\ Has(classConfigs, ReplaceDots(rOut.arg))) =>
           /\ rOut.state = "returned"
           /\ LET shared == rOut.value[1]
              IN  /\ {shared[i] : i \in 1..Len(shared)} = ExtrasOf(ReplaceDots(rOut.arg))
                  /\ \A i, j \in 1..Len(shared) :
                         i < j => KeyIndex(shared[i]) < KeyIndex(shared[j])
    /\ \A log \in {jsLog, pyLog} : \A l \in log :
           l.primary => LaunchedBeside(log, l.modulePath) = ExtrasOf(l.className)

\* C13 witness: getExtraDefines('Ring') has returned [Shape, Ring_Outline]
\* where _Ring shares Ring's relativePath too, and the generation of
\* geo/Ring.js has launched Shape and Ring_Outline in both pipelines
C13_Witness ==
    /\ rOut.fn = "getExtraDefines" /\ rOut.arg = RING /\ rOut.state = "returned"
    /\ rOut.value[1] = <<SHAPE, OUTLINE>>
    /\ Get(classConfigs, <<"_", "Ring">>).relativePath = Get(classConfigs, RING).relativePath
    /\ \A log \in {jsLog, pyLog} :
           /\ \E l \in log : l.modulePath = Unit("geo", RING) /\ l.primary /\ l.className = RING
           /\ LaunchedBeside(log, Unit("geo", RING)) = {SHAPE, OUTLINE}

\* the relative path of k '..' segments and the name segments names, after
\* the segments lead (none, or one '.')
PathOf(lead, k, names) == JoinSegs(lead \o [i \in 1..k |-> UP] \o names)

\* C17: for a relative path of k leading '..' segments, after an optional
\* '.', and n >= 1 name segments, relativePathToPythonImportPath returns k+1
\* dots and then the names joined by dots; for a path without a name segment
\* it returns dots only.
C17_ImportPathDotsCountAscent ==
    rOut.fn = "relativePathToPythonImportPath" =>
        /\ rOut.state = "returned"
        /\ \A lead \in {<<>>, <<CUR>>}, k \in 0..MaxUp :
           \A names \in UNION {[1..n -> {<<"geo">>, <<"Ring", "_", "autogen">>}] :
                                   n \in 0..MaxNames} :
               rOut.arg = PathOf(lead, k, names) =>
                   IF Len(names) >= 1
                   THEN rOut.value[1] = [i \in 1..(k + 1) |-> DOT] \o JoinWith(names, DOT)
                   ELSE /\ Len(rOut.value[1]) >= 1
                        /\ \A i \in 1..Len(rOut.value[1]) : rOut.value[1][i] = DOT

\* C17 witness: '../../geo/Ring_autogen' has given '...geo.Ring_autogen', two
\* directories up
C17_Witness ==
    /\ rOut.fn = "relativePathToPythonImportPath" /\ rOut.state = "returned"
    /\ rOut.arg = <<DOT, DOT, SEP, DOT, DOT, SEP, "geo", SEP, "Ring", "_", "autogen">>
    /\ rOut.value[1] = <<DOT, DOT, DOT, "geo", DOT, "Ring", "_", "autogen">>

---------------------------------------------------------------------------
(* Properties of the reference mapping (SpecWrap).                         *)

Constructed == wOut.state = "done"

\* the class names an own property's typeName holds
RefsOfProp(prop) ==
    IF prop.type \notin ThreeTypes THEN {}
    ELSE IF prop.typeName.kind = "string" THEN {prop.typeName.str}
    ELSE IF prop.typeName.kind = "array"
    THEN {prop.typeName.arr[i] : i \in 1..Len(prop.typeName.arr)}
    ELSE {}

\* the names the own properties of a class reference
PropertyRefs(class) ==
    UNION {RefsOfProp(Declared(class)[i].v) : i \in 1..Len(Declared(class))}

\* the names the explicit dependencies of a class hold
DependencyRefs(class) ==
    LET deps == FieldOr(Get(classConfigs, class), "dependencies", <<>>)
    IN  {deps[i] : i \in 1..Len(deps)}

\* the module of a configured class ('./geo/Ring' -> 'geo/Ring.js'), and
\* the class-name argument its wrapper is made with
ModuleOfClass(class) ==
    LET relativePath == Get(classConfigs, class).relativePath
    IN  SubSeq(relativePath, 3, Len(relativePath)) \o EXT_JS
ClassNameArg(class) ==
    IF ReplaceDots(BasenameExt(ModuleOfClass(class), EXT_JS)) = class THEN <<>> ELSE <<class>>

\* the hand-written override file of a class, and the file its wrapper writes
OverrideFileOf(lang, class) ==
    Append(AbsDirname(Resolve(ModuleOfClass(class))),
           class \o (IF lang = "js" THEN EXT_JS ELSE EXT_PY))
GeneratedFileOf(lang, class) ==
    IF lang = "js" THEN JsAutoDestPath(ModuleOfClass(class), ClassNameArg(class))
    ELSE PyAutoDestPath(ModuleOfClass(class), class)

\* the file a reference to a class is to point at
ExpectedFileOf(lang, class) ==
    IF Exists(IF lang = "js" THEN jsFiles ELSE pyFiles, OverrideFileOf(lang, class))
    THEN OverrideFileOf(lang, class)
    ELSE GeneratedFileOf(lang, class)

\* the requirePath of a reference from destDir to a file (a Python module is
\* named without its extension)
RequirePathTo(lang, destDir, file) ==
    IF lang = "js" THEN JsRequirePath(destDir, file)
    ELSE Relative(destDir, [file EXCEPT ![Len(file)] = DropLast(@, Len(EXT_PY))])

\* C3: the reference mapping of a constructed wrapper has, for every
\* configured class an own property references, an entry that points at the
\* class's override file when that file exists and at the file the generator
\* writes for the class otherwise.
C3_ReferencePointsAtOwnFile ==
    (Constructed /\ wOut.result.ok) =>
        LET class   == wOut.result.value.className
            destDir == AbsDirname(Resolve(wOut.modulePath))
        IN  \A ref \in {r \in PropertyRefs(class) : IsString(r) /\ Has(classConfigs, r)} :
                /\ Has(wOut.result.value.dependencies, ref)
                /\ Get(wOut.result.value.dependencies, ref).requirePath =
                       RequirePathTo(wOut.lang, destDir, ExpectedFileOf(wOut.lang, ref))

\* a path: a name that starts with '.' or holds a separator
IsBarePath(name) == Len(name) > 0 /\ (name[1] = DOT \/ Contains(name, SEP))

\* the names a class references that are neither keys of the store nor paths
\* ('this' and the empty typeName are no references to a class)
UnresolvableRefs(class) ==
    {r \in DependencyRefs(class) \cup (PropertyRefs(class) \ {THIS, <<>>}) :
        ~(IsString(r) /\ (Has(classConfigs, r) \/ IsBarePath(r)))}

\* C9: constructing the wrapper of a class that references a name that is
\* neither a key of the store nor a path fails with the reference error,
\* 'invalid classDescriptor'.
C9_UnresolvableReferenceFails ==
    (Constructed /\ UnresolvableRefs(WrapperClassName(wOut.modulePath, wOut.classNameOpt)) # {})
        => (~wOut.result.ok /\ wOut.result.err = "invalid classDescriptor")

\* the keys under which the explicit dependencies and the own properties of
\* a class are to be resolved: 'this' is no reference, an empty typeName
\* stands for './_base/Three'
OwnRefKeys(class) ==
    DependencyRefs(class) \cup
    {IF r = <<>> THEN BASE_THREE ELSE r : r \in PropertyRefs(class) \ {THIS}}

\* the names referenced by the own properties of the ancestors of a class,
\* and the ancestors above its direct superclass
InheritedRefs(class) ==
    LET classes == ChainOf(class, Len(classConfigs)).classes
    IN  UNION {PropertyRefs(classes[j]) : j \in 2..Len(classes)}
        \cup {classes[j] : j \in 3..Len(classes)}

\* C14: the references of a constructed wrapper are the reference to its
\* direct superclass and one entry for each explicit dependency and each
\* class its own properties name, and nothing else: a class that only an
\* inherited property names, or that is only an ancestor above the direct
\* superclass, has no entry.
C14_OnlySuperAndOwnReferences ==
    (Constructed /\ wOut.result.ok) =>
        LET class   == wOut.result.value.className
            rec     == Get(classConfigs, class)
            super   == wOut.result.value.superClass
            entries == KeySet(wOut.result.value.dependencies)
        IN  /\ NamesSuper(rec) => super.className = rec.superClass
            /\ entries = OwnRefKeys(class)
            /\ \A other \in InheritedRefs(class) \
                         (OwnRefKeys(class) \cup {FieldOr(rec, "superClass", <<>>)}) :
                   /\ other \notin entries
                   /\ \A i \in 1..Len(wOut.result.value.dependencies) :
                          wOut.result.value.dependencies[i].v.className # other
                   /\ super.className # other

\* C14 witness: Ring <- Shape <- BaseGeometry, Shape with an own property of
\* type Ring_Outline, Ring with no dependency and no class-typed property:
\* Ring's wrapper references Shape and has no other entry
C14_Witness ==
    /\ Constructed /\ wOut.result.ok
    /\ wOut.result.value.className = RING
    /\ ChainOf(RING, Len(classConfigs)).classes = <<RING, SHAPE, BASE>>
    /\ PropertyRefs(SHAPE) = {OUTLINE}
    /\ PropertyRefs(RING) = {} /\ DependencyRefs(RING) = {}
    /\ wOut.result.value.superClass.className = SHAPE
    /\ wOut.result.value.dependencies = <<>>

\* the keys the own properties of a class are resolved under
PropertyRefKeys(class) ==
    {IF r = <<>> THEN BASE_THREE ELSE r : r \in PropertyRefs(class) \ {THIS}}

\* C15: for a key that both an explicit dependency and an own property of a
\* class produce, the descriptor the explicit dependencies give, the
\* descriptor the properties give and the descriptor of the final mapping are
\* equal in every field, in the JavaScript and in the Python pipeline.
C15_SameKeySameDescriptor ==
    (Constructed /\ wOut.result.ok) =>
        LET class    == wOut.result.value.className
            destDir  == AbsDirname(Resolve(wOut.modulePath))
            config   == getClassConfig(class).value
            explicit == processDependencies(wOut.lang, destDir,
                            [properties |-> <<>>] @@ config).value
            inferred == processDependencies(wOut.lang, destDir,
                            [dependencies |-> <<>>] @@ config).value
        IN  \A key \in DependencyRefs(class) \cap PropertyRefKeys(class) :
                /\ Get(explicit, key) = Get(inferred, key)
                /\ Get(wOut.result.value.dependencies, key) = Get(explicit, key)

\* whether the rendering context of a constructed wrapper carries the
\* override pointer (JavaScript) or the override flag (Python)
CarriesOverride ==
    IF wOut.lang = "js" THEN Len(wOut.result.value.output.override_class) = 1
    ELSE wOut.result.value.output.hasOverride

\* C16: the rendering context of a generated class, primary or extra
\* definition, carries the override pointer or flag exactly when a file
\* exists at <dir>/<ClassName>.js (JavaScript) or <dir>/<ClassName>.py
\* (Python), dir being the directory the class is generated into.
C16_OverrideFlagIsOwnOverride ==
    (Constructed /\ wOut.result.ok) =>
        LET class == wOut.result.value.className
            own   == Append(AbsDirname(Resolve(wOut.modulePath)),
                            class \o (IF wOut.lang = "js" THEN EXT_JS ELSE EXT_PY))
        IN  CarriesOverride <=>
                Exists(IF wOut.lang = "js" THEN jsFiles ELSE pyFiles, own)

---------------------------------------------------------------------------
(* Properties of the directory index (SpecIndex).                          *)

AUTOGEN_JS_SUFFIX == <<DOT, "autogen", DOT, "js">>

\* the entry of the index for a file of the listing
EntryOf(filePath) == <<DOT, SEP>> \o Split(filePath)[Len(Split(filePath))]

\* the override of a generated file of the listing: X.autogen.js -> X.js
OverrideOf(filePath) == DropLast(filePath, Len(AUTOGEN_JS_SUFFIX)) \o <<DOT, "js">>

\* the generated artifacts in the listing a directory's index was made from
GeneratedIn(d) == {f \in jsIndexed[d].dirFiles : EndsWith(f, AUTOGEN_JS_SUFFIX)}

\* exactly one of a generated artifact and its override is in the index of d:
\* the override when the listing holds it, the artifact otherwise
ListsExactlyOne(d, f) ==
    IF OverrideOf(f) \in jsIndexed[d].dirFiles
    THEN /\ EntryOf(OverrideOf(f)) \in jsIndexed[d].submodules
         /\ EntryOf(f) \notin jsIndexed[d].submodules
    ELSE /\ EntryOf(f) \in jsIndexed[d].submodules
         /\ EntryOf(OverrideOf(f)) \notin jsIndexed[d].submodules

\* a file name the index leaves out whatever else the listing holds
LeftOut(filePath) ==
    \/ EndsWith(filePath, <<"index", DOT, "js">>)
    \/ EndsWith(filePath, <<DOT, "swp">>)
    \/ EndsWith(filePath, <<DOT, "DS_Store">>)
    \/ filePath \in {<<DOT, SEP, "embed", DOT, "js">>, <<DOT, SEP, "extension", DOT, "js">>}

---------------------------------------------------------------------------
(* Properties of the pipelines (Spec).                                     *)

\* C5: while writeJavascriptIndexFiles reads the directories, and while
\* createTopLevelPythonModuleFile reads them, no write of a class's generated
\* file is pending, the extra definitions' included.
C5_AggregationAfterEveryWrite ==
    /\ jsPhase \in {"index", "top"} =>
           \A w \in jsPending : w.content.kind # "js_wrapper"
    /\ pyPhase = "scan" =>
           \A w \in pyPending : w.content.kind # "py_wrapper"

\* whether making the wrapper of a class fails: the class or one of its
\* ancestors is no key of the store, or a constructor argument names no
\* property of the class or of an ancestor
ConstructionFails(class) ==
    LET chain == ChainOf(class, Len(classConfigs))
    IN  \/ ~chain.closed
        \/ LET args == FieldOr(Get(classConfigs, class), "constructorArgs", <<>>)
           IN  \E i \in 1..Len(args) :
                   /\ args[i] # PARAMETERS
                   /\ \A j \in 1..Len(chain.classes) : ~Has(Declared(chain.classes[j]), args[i])

\* the file a logged call writes
JsFileOfCall(l) ==
    Append(AbsDirname(Resolve(l.modulePath)), l.className \o AUTOGEN_JS_SUFFIX)
PyFileOfCall(l) ==
    Append(AbsDirname(Resolve(l.modulePath)), l.className \o <<"_", "autogen", DOT, "py">>)

\* every enumerated module and custom class has its call logged
AllLogged(log) ==
    /\ \A i \in 1..Len(threeModules) : \E l \in log : l.modulePath = threeModules[i] /\ l.primary
    /\ \A i \in 1..Len(CUSTOM_CLASSES) : \E l \in log : l.modulePath = CUSTOM_CLASSES[i] /\ l.primary

\* C6: a call whose wrapper cannot be made returns false and starts no write
\* of the class's file; every other call starts its write; once aggregation
\* has begun every enumerated class has had its call and the file of every
\* call that did not fail is written or, for an extra definition, being
\* written.
C6_FailureSkipsOneClass ==
    /\ \A l \in jsLog :
           IF ConstructionFails(l.className)
           THEN l.returned = "false" /\ JsFileOfCall(l) \notin jsIssued
           ELSE /\ l.returned = "write" /\ JsFileOfCall(l) \in jsIssued
                /\ jsPhase \in {"index", "top", "done"} =>
                       \/ JsFileOfCall(l) \in DOMAIN jsFiles
                       \/ ~l.primary /\ \E w \in jsPending : w.path = JsFileOfCall(l)
    /\ \A l \in pyLog :
           IF ConstructionFails(l.className)
           THEN l.returned = "false" /\ PyFileOfCall(l) \notin pyIssued
           ELSE /\ l.returned = "write" /\ PyFileOfCall(l) \in pyIssued
                /\ pyPhase \in {"scan", "top", "done"} =>
                       \/ PyFileOfCall(l) \in DOMAIN pyFiles
                       \/ ~l.primary /\ \E w \in pyPending : w.path = PyFileOfCall(l)
    /\ jsPhase \in {"index", "top", "done"} => AllLogged(jsLog)
    /\ pyPhase \in {"scan", "top", "done"} => AllLogged(pyLog)

\* C6 witness: both pipelines are done; Ring's calls returned false and left
\* no file, Shape's wrote their files, and the aggregation files are written
C6_Witness ==
    /\ jsPhase = "done" /\ pyPhase = "done" /\ jsPending = {} /\ pyPending = {}
    /\ \E l \in jsLog : l.className = RING /\ l.returned = "false"
    /\ \E l \in pyLog : l.className = RING /\ l.returned = "false"
    /\ \E l \in jsLog : l.className = SHAPE /\ l.returned = "write"
    /\ << <<"geo">>, RING \o AUTOGEN_JS_SUFFIX >> \notin DOMAIN jsFiles
    /\ << <<"geo">>, SHAPE \o AUTOGEN_JS_SUFFIX >> \in DOMAIN jsFiles
    /\ << <<"geo">>, RING \o <<"_", "autogen", DOT, "py">> >> \notin DOMAIN pyFiles
    /\ << <<"geo">>, SHAPE \o <<"_", "autogen", DOT, "py">> >> \in DOMAIN pyFiles
    /\ << <<"index", DOT, "js">> >> \in DOMAIN jsFiles
    /\ << <<"__init__", DOT, "py">> >> \in DOMAIN pyFiles

\* the names of the files the generator makes
IsJsWrapperName(path) == EndsWith(path[Len(path)], AUTOGEN_JS_SUFFIX)
IsJsIndexName(path) == path[Len(path)] = <<"index", DOT, "js">>
IsPyWrapperName(path) == EndsWith(path[Len(path)], <<"_", "autogen", DOT, "py">>)
IsPyInitName(path) == path[Len(path)] = <<"__init__", DOT, "py">>

\* C7: every write of a class's file goes to <Class>.autogen.js or
\* <Class>_autogen.py, every other write to an index.js or an __init__.py,
\* and every file under another name still has its hand-written content.
C7_OverridesNeverWritten ==
    /\ \A w \in jsPending :
           \/ w.content.kind = "js_wrapper" /\ IsJsWrapperName(w.path)
           \/ w.content.kind = "js_index" /\ IsJsIndexName(w.path)
    /\ \A w \in pyPending :
           \/ w.content.kind = "py_wrapper" /\ IsPyWrapperName(w.path)
           \/ w.content.kind \in {"py_init", "py_top"} /\ IsPyInitName(w.path)
    /\ \A path \in jsIssued : IsJsWrapperName(path) \/ IsJsIndexName(path)
    /\ \A path \in pyIssued : IsPyWrapperName(path) \/ IsPyInitName(path)
    /\ \A path \in DOMAIN jsFiles :
           ~(IsJsWrapperName(path) \/ IsJsIndexName(path)) => jsFiles[path] = HandWritten
    /\ \A path \in DOMAIN pyFiles :
           ~(IsPyWrapperName(path) \/ IsPyInitName(path)) => pyFiles[path] = HandWritten

\* C7 witness: Ring has its overrides in both trees, its generated files are
\* written beside them, and the overrides hold what they held
C7_Witness ==
    /\ jsPhase = "done" /\ pyPhase = "done" /\ jsPending = {} /\ pyPending = {}
    /\ << <<"geo">>, RING \o <<DOT, "js">> >> \in DOMAIN jsFiles
    /\ jsFiles[<< <<"geo">>, RING \o <<DOT, "js">> >>] = HandWritten
    /\ << <<"geo">>, RING \o AUTOGEN_JS_SUFFIX >> \in DOMAIN jsFiles
    /\ jsFiles[<< <<"geo">>, RING \o AUTOGEN_JS_SUFFIX >>].kind = "js_wrapper"
    /\ << <<"geo">>, RING \o <<DOT, "py">> >> \in DOMAIN pyFiles
    /\ pyFiles[<< <<"geo">>, RING \o <<DOT, "py">> >>] = HandWritten
    /\ << <<"geo">>, RING \o <<"_", "autogen", DOT, "py">> >> \in DOMAIN pyFiles
    /\ pyFiles[<< <<"geo">>, RING \o <<"_", "autogen", DOT, "py">> >>].kind = "py_wrapper"

\* C8: once the second run has ended, both trees hold the files the first run
\* left, each with the content it had.
C8_SecondRunChangesNothing ==
    (run = 2 /\ jsPhase = "done" /\ pyPhase = "done" /\ jsPending = {} /\ pyPending = {})
        => (jsFiles = prevJs /\ pyFiles = prevPy)

\* the import path of a module of a directory: '.geo.Ring_autogen'
ImportPathOf(dirAbs, moduleName) == <<DOT>> \o JoinWith(Append(dirAbs, moduleName), DOT)

Listed(importPath) == [pyRelativePath |-> importPath] \in pyModules

\* the class of a generated Python artifact: Ring_autogen.py -> Ring
PyClassOfArtifact(path) == DropLast(path[Len(path)], Len(<<"_", "autogen", DOT, "py">>))

\* the glob of createTopLevelPythonModuleFile has ended
PyScanned == pyPhase \in {"top", "done"}

\* C12: once the Python tree has been scanned, the aggregator lists, for
\* every generated artifact <dir>/<Class>_autogen.py of the tree, exactly one
\* module: <dir>.<Class> when <dir>/<Class>.py exists, <dir>.<Class>_autogen
\* otherwise; it lists no __init__ module, and neither install nor sage.
C12_TopLevelListsExactlyOne ==
    PyScanned =>
        /\ \A path \in {q \in DOMAIN pyFiles : IsPyWrapperName(q)} :
               LET dirAbs    == AbsDirname(path)
                   class     == PyClassOfArtifact(path)
                   override  == ImportPathOf(dirAbs, class)
                   generated == ImportPathOf(dirAbs, class \o <<"_", "autogen">>)
               IN  IF Append(dirAbs, class \o <<DOT, "py">>) \in DOMAIN pyFiles
                   THEN Listed(override) /\ ~Listed(generated)
                   ELSE Listed(generated) /\ ~Listed(override)
        /\ \A m \in pyModules :
               /\ ~EndsWith(m.pyRelativePath, <<DOT, "__init__">>)
               /\ m.pyRelativePath \notin {<<DOT, "install">>, <<DOT, "sage">>}

=============================================================================
